---- MODULE Spec2Model ----
(***************************************************************************)
(* A model of SmartDataProfiler                                            *)
(* (src/building_blocks/data/smart_data_profiler.py): the orchestrator     *)
(* execute as a state machine over its stages, and the helpers it calls    *)
(* as operators.                                                           *)
(*                                                                         *)
(* Numbers.  The code computes in binary floating point; the model         *)
(* computes the same quantities as exact rationals [num, den] with         *)
(* den > 0, and [num |-> 0, den |-> 0] stands for NaN.  Percentages and    *)
(* scores of the small tables modelled here are rationals whose order      *)
(* relations floating point preserves.  pattern_threshold is held in       *)
(* tenths (8 is 0.8).  Text is a sequence of one-character strings, so     *)
(* that the regular expressions and numeric parsing act on characters.     *)
(*                                                                         *)
(* Tables.  A table has nrows rows labelled 0..nrows-1 (the default        *)
(* RangeIndex) and a sequence of columns, named by their position; a       *)
(* column is a sequence of cells.  A missing cell is NaN (NaT), or None in  *)
(* a column of object storage; pandas turns a None given for a cell of a   *)
(* floating-point or datetime column into NaN (NaT).                       *)
(***************************************************************************)
EXTENDS Integers, Sequences, FiniteSets, TLC

(***************************************************************************)
(* Bounds of the model.                                                    *)
(***************************************************************************)
MaxCells == 3
MaxCols == 2
MaxSparseRows == 6
MaxTypeRows == 3
MaxTextRows == 11
MaxFenceRows == 5
MaxCategoryRows == 1001
MaxPatternRows == 3
MaxCorrCols == 3
NumThreads == 2
CallsPerThread == 2
MaxMaintCalls == 1

(***************************************************************************)
(* Program constants.                                                      *)
(***************************************************************************)
DefaultSampleSize == 100000
DefaultPatternThresholdTenths == 8
CategoricalMaxUnique == 10
CategoricalRatioPct == 5
CategoricalCountCap == 50
HeadSample == 100

(***************************************************************************)
(* Sequence helpers.                                                       *)
(***************************************************************************)
Range(s) == {s[i] : i \in 1..Len(s)}

RECURSIVE SumSeq(_)
SumSeq(s) == IF s = <<>> THEN 0 ELSE Head(s) + SumSeq(Tail(s))

SelectIdx(s, P(_)) ==
  LET chosen == {i \in 1..Len(s) : P(i)}
  IN [k \in 1..Cardinality(chosen) |->
        CHOOSE i \in chosen : Cardinality({j \in chosen : j < i}) = k - 1]

Count(s, P(_)) == Cardinality({i \in 1..Len(s) : P(s[i])})

InjectiveSeqs(S, n) == {q \in [1..n -> S] : \A i, j \in 1..n : i # j => q[i] # q[j]}

Abs(x) == IF x < 0 THEN -x ELSE x

RECURSIVE Gcd(_, _)
Gcd(a, b) == IF b = 0 THEN a ELSE Gcd(b, a % b)

(***************************************************************************)
(* Rationals standing for the code's floats.                               *)
(***************************************************************************)
NaN == [num |-> 0, den |-> 0]
IsNaN(r) == r.den = 0
Rat(n, d) ==
  IF d = 0 THEN NaN
  ELSE LET g == Gcd(Abs(n), Abs(d))
           s == IF d < 0 THEN -1 ELSE 1
       IN [num |-> s * (n \div g), den |-> s * (d \div g)]
RInt(n) == [num |-> n, den |-> 1]
RAdd(a, b) == IF IsNaN(a) \/ IsNaN(b) THEN NaN
              ELSE Rat(a.num * b.den + b.num * a.den, a.den * b.den)
RSub(a, b) == IF IsNaN(a) \/ IsNaN(b) THEN NaN
              ELSE Rat(a.num * b.den - b.num * a.den, a.den * b.den)
RMul(a, b) == IF IsNaN(a) \/ IsNaN(b) THEN NaN
              ELSE Rat(a.num * b.num, a.den * b.den)
\* a / n for an integer n: n = 0 gives NaN when a = 0 (numpy's 0/0)
RDivInt(a, n) == IF IsNaN(a) THEN NaN ELSE Rat(a.num, a.den * n)
\* comparisons with NaN are false, as in IEEE arithmetic
RLt(a, b) == ~IsNaN(a) /\ ~IsNaN(b) /\ a.num * b.den < b.num * a.den
RLe(a, b) == ~IsNaN(a) /\ ~IsNaN(b) /\ a.num * b.den <= b.num * a.den
\* Python's min(a, b): b if b < a, else a
PyMin(a, b) == IF RLt(b, a) THEN b ELSE a
RECURSIVE RSum(_)
RSum(s) == IF s = <<>> THEN RInt(0) ELSE RAdd(Head(s), RSum(Tail(s)))

(***************************************************************************)
(* Cells.                                                                  *)
(***************************************************************************)
\* a missing cell is NaN (NaT in a datetime column) or, in an object column,
\* Python's None
Null == [k |-> "null", n |-> 0, s |-> <<>>]
NoneC == [k |-> "none", n |-> 0, s |-> <<>>]
IntC(i) == [k |-> "int", n |-> i, s |-> <<>>]
StrC(t) == [k |-> "str", n |-> 0, s |-> t]
ListC == [k |-> "list", n |-> 0, s |-> <<>>]
\* True and False (n is 1 and 0), and a pd.Timestamp (n is its day)
BoolC(b) == [k |-> "bool", n |-> IF b THEN 1 ELSE 0, s |-> <<>>]
TsC(d) == [k |-> "Timestamp", n |-> d, s |-> <<>>]
\* a datetime.date (n is its day)
DateC(d) == [k |-> "date", n |-> d, s |-> <<>>]

\* pd.isnull: NaN, NaT and None
IsNull(c) == c.k \in {"null", "none"}
IsStr(c) == c.k = "str"

Email == <<"a", "@", "b", ".", "c", "o">>
Phone == <<"5", "-", "1">>
IsoDate == <<"2", "0", "2", "4", "-", "0", "1", "-", "0", "1">>

(***************************************************************************)
(* Character classes and the regular expressions of _detect_patterns.      *)
(***************************************************************************)
Digits == {"0", "1", "2", "3", "4", "5", "6", "7", "8", "9"}
Letters == {"a", "b", "c", "d", "e", "f", "g", "h", "i", "j", "k", "l", "m",
            "n", "o", "p", "q", "r", "s", "t", "u", "v", "w", "x", "y", "z",
            "A", "B", "C", "D", "E", "F", "G", "H", "I", "J", "K", "L", "M",
            "N", "O", "P", "Q", "R", "S", "T", "U", "V", "W", "X", "Y", "Z"}
EmailLocalChars == Letters \cup Digits \cup {".", "_", "%", "+", "-"}
EmailDomainChars == Letters \cup Digits \cup {".", "-"}
PhoneChars == Digits \cup {"+", "-", "(", ")", " "}

AllIn(t, from, to, S) == \A i \in from..to : t[i] \in S

\* ^[a-zA-Z0-9._%+-]+@[a-zA-Z0-9.-]+\.[a-zA-Z]{2,}$
MatchEmail(t) ==
  \E at \in 2..Len(t) : \E dot \in (at + 2)..(Len(t) - 2) :
     /\ t[at] = "@"
     /\ t[dot] = "."
     /\ AllIn(t, 1, at - 1, EmailLocalChars)
     /\ AllIn(t, at + 1, dot - 1, EmailDomainChars)
     /\ AllIn(t, dot + 1, Len(t), Letters)

\* ^[+\-\(\)\d\s]+$
MatchPhone(t) == Len(t) >= 1 /\ AllIn(t, 1, Len(t), PhoneChars)

\* a pattern of \d ("d") and literal characters, anchored at both ends
MatchShape(t, shape) ==
  /\ Len(t) = Len(shape)
  /\ \A i \in 1..Len(t) : IF shape[i] = "d" THEN t[i] \in Digits ELSE t[i] = shape[i]

date_patterns ==
  << <<"d", "d", "d", "d", "-", "d", "d", "-", "d", "d">>,
     <<"d", "d", "/", "d", "d", "/", "d", "d", "d", "d">>,
     <<"d", "d", "-", "d", "d", "-", "d", "d", "d", "d">>,
     <<"d", "d", "d", "d", "/", "d", "d", "/", "d", "d">> >>

(***************************************************************************)
(* pd.to_numeric(..., errors='coerce') on one cell: [ok, val].  Text       *)
(* parses when it is an optionally signed run of decimal digits; the       *)
(* other texts of the model (with letters, '@' or an inner '-') do not.    *)
(***************************************************************************)
DigitVal(c) == CHOOSE d \in 0..9 : ToString(d) = c

RECURSIVE DigitsVal(_)
DigitsVal(t) == IF t = <<>> THEN 0
                ELSE 10 * DigitsVal(SubSeq(t, 1, Len(t) - 1)) + DigitVal(t[Len(t)])

ParsesNumeric(t) ==
  LET body == IF Len(t) >= 1 /\ t[1] \in {"+", "-"} THEN Tail(t) ELSE t
  IN Len(body) >= 1 /\ AllIn(body, 1, Len(body), Digits)

to_numeric(c) ==
  IF c.k \in {"int", "bool"} THEN [ok |-> TRUE, val |-> c.n]
  ELSE IF c.k = "str" /\ ParsesNumeric(c.s)
       THEN [ok |-> TRUE,
             val |-> IF c.s[1] = "-" THEN -DigitsVal(Tail(c.s))
                     ELSE IF c.s[1] = "+" THEN DigitsVal(Tail(c.s))
                     ELSE DigitsVal(c.s)]
       ELSE [ok |-> FALSE, val |-> 0]

(***************************************************************************)
(* Series: a sequence of cells in row order.                               *)
(***************************************************************************)
dropna(series) == SelectSeq(series, LAMBDA c : ~IsNull(c))
isnull_sum(series) == Count(series, IsNull)
head(series, n) == SubSeq(series, 1, IF Len(series) < n THEN Len(series) ELSE n)

\* a list cell is unhashable: unique() and nunique() raise TypeError on it
Unhashable(series) == \E i \in 1..Len(series) : series[i].k = "list"
\* values are told apart by hash and equality: True is 1 and False is 0
HashKey(c) == IF c.k = "bool" THEN IntC(c.n) ELSE c
\* Series.unique(): the distinct values, NaN counted as one value
unique(series) == {HashKey(series[i]) : i \in 1..Len(series)}
\* Series.nunique(): the number of distinct non-missing values
nunique(series) == Cardinality(unique(dropna(series)))

\* the storage dtype pandas gives a column built from these cells: float64 or
\* int64 when every cell is a number, NaN or None and not every cell is None,
\* bool when every cell is True or False, datetime64 when every cell is a
\* Timestamp or missing and one is a Timestamp, object otherwise (a column of
\* None alone is an object column)
StorageOf(column) ==
  IF /\ \A i \in 1..Len(column) : column[i].k \in {"int", "null", "none"}
     /\ \E i \in 1..Len(column) : column[i].k # "none"
  THEN "numeric"
  ELSE IF \A i \in 1..Len(column) : column[i].k = "bool" THEN "bool"
  ELSE IF /\ \A i \in 1..Len(column) : column[i].k \in {"Timestamp", "null", "none"}
          /\ \E i \in 1..Len(column) : column[i].k = "Timestamp"
  THEN "datetime"
  ELSE "object"

\* the cells a DataFrame holds for a column given as these values: a float64
\* or datetime64 column holds NaN (NaT) where None was given, an object
\* column keeps None
Construct(column) ==
  IF StorageOf(column) \in {"numeric", "datetime"}
  THEN [i \in 1..Len(column) |-> IF column[i].k = "none" THEN Null ELSE column[i]]
  ELSE column

\* type(x) of a cell as Python sees it in an object column; NaN is a float
TypeOf(c) == CASE c.k = "null" -> "float"
               [] c.k = "none" -> "NoneType"
               [] c.k = "int" -> "int"
               [] c.k = "str" -> "str"
               [] c.k = "bool" -> "bool"
               [] c.k = "Timestamp" -> "Timestamp"
               [] c.k = "date" -> "date"
               [] OTHER -> "list"


\* membership in {True, False, 'True', 'False', 'true', 'false'}: 1 == True and
\* 0 == False hash and compare equal
BoolLike(c) ==
  \/ c.k = "bool"
  \/ c.k = "int" /\ c.n \in {0, 1}
  \/ c.k = "str" /\ c.s \in {<<"T", "r", "u", "e">>, <<"F", "a", "l", "s", "e">>,
                             <<"t", "r", "u", "e">>, <<"f", "a", "l", "s", "e">>}

datetime_types == {"str", "datetime", "Timestamp", "date"}
complex_types == {"dict", "list", "tuple", "set"}

\* pd.to_datetime(..., errors='coerce', format='mixed') gives a date for this
\* cell of an object column: a Timestamp or a date is one, an integer is taken
\* as nanoseconds since the epoch, text parses when it is in one of the four
\* date shapes (the other texts of the model, a number below 1000 or text with
\* '@', do not), and True, False, NaN, None and containers give NaT.
to_datetime_valid(c) ==
  \/ c.k \in {"Timestamp", "date", "int"}
  \/ c.k = "str" /\ \E p \in 1..Len(date_patterns) : MatchShape(c.s, date_patterns[p])

\* the numeric-text threshold with 90% itself counted as mostly numeric
MostlyNumericInclusive(valid_numeric, n) == 10 * valid_numeric >= 9 * n

\* valid_numeric / len(series) > 0.9
MostlyNumeric(valid_numeric, n) == 10 * valid_numeric > 9 * n

_determine_dtype(series, storage) ==
  LET n == Len(series)
      strs == \A i \in 1..Len(head(series, HeadSample)) : IsStr(series[i])
      valid_numeric == Count(series, LAMBDA c : to_numeric(c).ok)
      \* set(type(x) for x in series if x is not None)
      types == {TypeOf(series[i]) : i \in {j \in 1..n : series[j].k # "none"}}
      valid_dates == Count(series, to_datetime_valid)
  IN IF n = 0 THEN "text"
     ELSE IF storage = "datetime" THEN "datetime"
     ELSE IF storage = "bool" THEN "boolean"
     ELSE IF ~Unhashable(series) /\ Cardinality(unique(series)) = 2
             /\ \A c \in unique(series) : BoolLike(c) THEN "boolean"
     ELSE IF storage = "numeric" THEN "numeric"
     ELSE IF strs THEN
            IF MostlyNumeric(valid_numeric, n) THEN "numeric"
            ELSE IF valid_numeric > 0 THEN "mixed"
            ELSE "string"
     ELSE IF Cardinality(types) > 1 THEN
            IF types \subseteq datetime_types THEN
               IF valid_dates = n THEN "datetime" ELSE "mixed"
            ELSE IF types \cap complex_types # {} THEN "object"
            ELSE "mixed"
     ELSE IF valid_dates > 0 /\ 10 * valid_dates > 7 * n THEN "datetime"
     ELSE IF strs THEN "string"
     ELSE "object"

(***************************************************************************)
(* Column Profiler.  A profile is a mapping from keys to values, as the     *)
(* code's dict; of the type-specific statistics the model keeps the ones    *)
(* the quality score reads (the outlier count).                             *)
(***************************************************************************)
\* Series.quantile(q) with q = qnum/4, linear interpolation on sorted values
quantile4(sorted, qnum) ==
  LET h == qnum * (Len(sorted) - 1)
      lo == h \div 4
      r == h % 4
  IN IF r = 0 THEN RInt(sorted[lo + 1])
     ELSE RAdd(RInt(sorted[lo + 1]), Rat(r * (sorted[lo + 2] - sorted[lo + 1]), 4))

\* the outlier fences at the classic 1.5 times the interquartile range
_profile_numeric_classic(series) ==
  LET parsed == SelectSeq(series, LAMBDA c : to_numeric(c).ok)
      numeric_series == [i \in 1..Len(parsed) |-> to_numeric(parsed[i]).val]
      sorted == SortSeq(numeric_series, LAMBDA a, b : a < b)
      q1 == quantile4(sorted, 1)
      q3 == quantile4(sorted, 3)
      iqr == RSub(q3, q1)
      lower_bound == RSub(q1, RMul(Rat(3, 2), iqr))
      upper_bound == RAdd(q3, RMul(Rat(3, 2), iqr))
      outliers == SelectSeq(numeric_series,
                    LAMBDA v : RLt(RInt(v), lower_bound) \/ RLt(upper_bound, RInt(v)))
  IN [q1 |-> q1, q3 |-> q3, outliers |-> [count |-> Len(outliers), values |-> outliers]]

_profile_numeric(series) ==
  LET parsed == SelectSeq(series, LAMBDA c : to_numeric(c).ok)
      numeric_series == [i \in 1..Len(parsed) |-> to_numeric(parsed[i]).val]
      sorted == SortSeq(numeric_series, LAMBDA a, b : a < b)
      q1 == quantile4(sorted, 1)
      q3 == quantile4(sorted, 3)
      iqr == RSub(q3, q1)
      lower_bound == RSub(q1, RMul(RInt(2), iqr))
      upper_bound == RAdd(q3, RMul(RInt(2), iqr))
      outliers == SelectSeq(numeric_series,
                    LAMBDA v : RLt(RInt(v), lower_bound) \/ RLt(upper_bound, RInt(v)))
  IN [q1 |-> q1, q3 |-> q3, outliers |-> [count |-> Len(outliers), values |-> outliers]]

\* series.value_counts().get(key, 0) for key True or False.  The counts are
\* indexed by the column's values: a bool index finds the key; a numeric
\* index has no bool key (get_loc raises KeyError, get gives the default); an
\* object index finds the values equal to the key, True or 1, False or 0, and
\* no text.
value_counts_get(series, storage, key) ==
  IF storage = "numeric" THEN 0
  ELSE Count(series, LAMBDA c : c.k \in {"bool", "int"} /\ HashKey(c) = HashKey(BoolC(key)))

_profile_boolean(series, storage) ==
  [true_count |-> value_counts_get(series, storage, TRUE),
   false_count |-> value_counts_get(series, storage, FALSE),
   true_percentage |->
      RMul(RDivInt(RInt(value_counts_get(series, storage, TRUE)), Len(series)), RInt(100))]

_profile_column(series, storage) ==
  LET profile == [count |-> Len(series),
                  null_count |-> isnull_sum(series),
                  null_percentage |->
                     RMul(RDivInt(RInt(isnull_sum(series)), Len(series)), RInt(100))]
      non_null == dropna(series)
      dtype == _determine_dtype(non_null, storage)
  IN IF Len(non_null) = 0 THEN profile @@ [dtype |-> "all_null"]
     ELSE IF dtype = "numeric"
          THEN profile @@ [dtype |-> dtype] @@ _profile_numeric(non_null)
     ELSE IF dtype = "boolean"
          THEN profile @@ [dtype |-> dtype] @@ _profile_boolean(non_null, storage)
          ELSE profile @@ [dtype |-> dtype]

(***************************************************************************)
(* Pattern Detector.  The result is a mapping from flag names to           *)
(* booleans; a flag the code does not set is not in its domain.            *)
(***************************************************************************)
Get(d, key, default) == IF key \in DOMAIN d THEN d[key] ELSE default

EmptyMap == [key \in {} |-> TRUE]

\* the threshold test taken strictly
RatioAbove(matches, total, thresholdTenths) == 10 * matches > thresholdTenths * total

\* bool((matches / len(non_null)) >= threshold), threshold in tenths
RatioAtLeast(matches, total, thresholdTenths) == 10 * matches >= thresholdTenths * total

\* the categorical rule without its second alternative
FewValuesByCountOnly(unique_count, rows) == unique_count <= CategoricalMaxUnique

\* (unique_count <= 10) or (unique_ratio < 0.05 and unique_count < 50)
FewValues(unique_count, rows) ==
  \/ unique_count <= CategoricalMaxUnique
  \/ /\ 100 * unique_count < CategoricalRatioPct * rows
     /\ unique_count < CategoricalCountCap

_detect_patterns(series, storage, threshold) ==
  LET non_null == dropna(series)
      n == Len(non_null)
      strs == \A i \in 1..Len(head(non_null, HeadSample)) : IsStr(non_null[i])
      email_matches == Count(non_null, LAMBDA c : IsStr(c) /\ MatchEmail(c.s))
      phone_matches == Count(non_null, LAMBDA c : IsStr(c) /\ MatchPhone(c.s))
      date_matches ==
        SumSeq([p \in 1..Len(date_patterns) |->
                  Count(non_null, LAMBDA c : IsStr(c) /\ MatchShape(c.s, date_patterns[p]))])
      text_flags ==
        IF strs
        THEN [is_email |-> RatioAtLeast(email_matches, n, threshold),
              is_phone |-> RatioAtLeast(phone_matches, n, threshold),
              is_date |-> IF _determine_dtype(series, storage) = "datetime" THEN TRUE
                          ELSE RatioAtLeast(date_matches, n, threshold),
              is_id |-> IF Unhashable(series) THEN FALSE
                        ELSE nunique(series) = Len(series)]
        ELSE EmptyMap
      unique_count == nunique(series)
      is_categorical ==
        IF Unhashable(series) THEN FALSE
        ELSE FewValues(unique_count, Len(series))
      \* pd.to_numeric views a datetime64 column as integers, NaT included
      numeric_valid == IF storage = "datetime" THEN series
                       ELSE SelectSeq(series, LAMBDA c : to_numeric(c).ok)
      numeric_nunique ==
        IF storage = "datetime" THEN Cardinality(Range(series))
        ELSE Cardinality({to_numeric(numeric_valid[i]).val : i \in 1..Len(numeric_valid)})
      is_continuous ==
        IF Len(numeric_valid) > 0 THEN 2 * numeric_nunique > Len(series) ELSE FALSE
  IN IF n = 0 THEN EmptyMap
     ELSE text_flags @@ [is_categorical |-> is_categorical, is_continuous |-> is_continuous]

(***************************************************************************)
(* Correlation Analyzer.  A Pearson coefficient r is held exactly as its   *)
(* sign and its square, [sign, square] with square a rational; an          *)
(* undefined coefficient (NaN) is CorrNaN.  DataFrame.corr takes, for each  *)
(* pair of columns, the rows where both cells are present.                  *)
(***************************************************************************)
CorrNaN == [sign |-> 0, square |-> NaN]

Sign(x) == IF x > 0 THEN 1 ELSE IF x < 0 THEN -1 ELSE 0

\* libalgos.nancorr on two numeric columns
Pearson(x, y) ==
  LET both == SelectIdx(x, LAMBDA i : ~IsNull(x[i]) /\ ~IsNull(y[i]))
      nobs == Len(both)
      xs == [k \in 1..nobs |-> x[both[k]].n]
      ys == [k \in 1..nobs |-> y[both[k]].n]
      covxy == nobs * SumSeq([k \in 1..nobs |-> xs[k] * ys[k]]) - SumSeq(xs) * SumSeq(ys)
      ssqdm_x == nobs * SumSeq([k \in 1..nobs |-> xs[k] * xs[k]]) - SumSeq(xs) * SumSeq(xs)
      ssqdm_y == nobs * SumSeq([k \in 1..nobs |-> ys[k] * ys[k]]) - SumSeq(ys) * SumSeq(ys)
  IN IF nobs < 1 \/ ssqdm_x * ssqdm_y = 0 THEN CorrNaN
     ELSE [sign |-> Sign(covxy), square |-> Rat(covxy * covxy, ssqdm_x * ssqdm_y)]

\* the nested mapping with the diagonal kept
_calculate_correlations_with_self(columns, storages) ==
  LET numeric_columns == {c \in 1..Len(storages) : storages[c] = "numeric"}
  IN IF Cardinality(numeric_columns) < 2 THEN EmptyMap
     ELSE [col1 \in numeric_columns |->
             [col2 \in numeric_columns |-> Pearson(columns[col1], columns[col2])]]

\* columns are the series of the profiled table, storages their dtypes
_calculate_correlations(columns, storages) ==
  LET numeric_columns == {c \in 1..Len(storages) : storages[c] = "numeric"}
  IN IF Cardinality(numeric_columns) < 2 THEN EmptyMap
     ELSE [col1 \in numeric_columns |->
             [col2 \in numeric_columns \ {col1} |-> Pearson(columns[col1], columns[col2])]]

(***************************************************************************)
(* Missing-Pattern Analyzer.  labels are the row labels of the profiled    *)
(* table in its row order; series the column's cells in the same order.    *)
(***************************************************************************)
_detect_missing_pattern(series, labels) ==
  LET pos == SelectIdx(series, LAMBDA i : IsNull(series[i]))
      null_indices == [i \in 1..Len(pos) |-> labels[pos[i]]]
      k == Len(null_indices)
      diffs == {null_indices[i + 1] - null_indices[i] : i \in 1..(k - 1)}
  IN IF k = 0 THEN "none"
     ELSE IF null_indices = [i \in 1..k |-> i - 1] THEN "block"
     ELSE IF k > 1 /\ Cardinality(diffs) = 1 THEN "systematic"
     ELSE "random"

MissingRecord(series, labels) ==
  LET null_count == isnull_sum(series)
  IN IF null_count = 0
     THEN [pattern |-> "none", count |-> 0, percentage |-> RInt(0)]
     ELSE IF null_count = Len(series)
     THEN [pattern |-> "all_missing", count |-> null_count, percentage |-> RInt(100)]
     ELSE [pattern |-> _detect_missing_pattern(series, labels),
           count |-> null_count,
           percentage |-> RMul(RDivInt(RInt(null_count), Len(series)), RInt(100))]

(***************************************************************************)
(* Quality Scorer.                                                         *)
(***************************************************************************)
CompletenessScore(col_profile) == RSub(RInt(100), Get(col_profile, "null_percentage", RInt(0)))

HasOutlierScore(col_profile) ==
  Get(col_profile, "dtype", "") = "numeric" /\ "outliers" \in DOMAIN col_profile

OutlierScore(col_profile) ==
  LET outlier_percentage ==
        RMul(RDivInt(RInt(col_profile.outliers.count), col_profile.count), RInt(100))
  IN RSub(RInt(100), PyMin(RMul(outlier_percentage, RInt(10)), RInt(100)))

PatternScore(pattern_info) ==
  IF pattern_info.pattern = "random"
  THEN RSub(RInt(100), RMul(pattern_info.percentage, Rat(3, 2)))
  ELSE IF pattern_info.pattern = "systematic"
  THEN RSub(RInt(100), RMul(pattern_info.percentage, Rat(7, 10)))
  ELSE RInt(100)

\* profile and missing_patterns are sequences indexed by column; the code
\* does not read correlations
_calculate_quality_score(profile, correlations, missing_patterns) ==
  LET numeric == SelectIdx(profile, LAMBDA c : HasOutlierScore(profile[c]))
      scores == [c \in 1..Len(profile) |-> CompletenessScore(profile[c])]
                \o [i \in 1..Len(numeric) |-> OutlierScore(profile[numeric[i]])]
                \o [c \in 1..Len(missing_patterns) |-> PatternScore(missing_patterns[c])]
  IN IF Len(scores) > 0 THEN RDivInt(RSum(scores), Len(scores)) ELSE RInt(100)

(***************************************************************************)
(* Inputs of execute.                                                      *)
(***************************************************************************)
\* data: not a mapping at all (None), a mapping without the 'dataframe' key,
\* one whose 'dataframe' is no DataFrame, or one holding a table
NotMapping == [kind |-> "not_mapping", nrows |-> 0, columns |-> <<>>]
NoKey == [kind |-> "no_key", nrows |-> 0, columns |-> <<>>]
NotTable == [kind |-> "not_table", nrows |-> 0, columns |-> <<>>]
Table(n, cols) == [kind |-> "table", nrows |-> n, columns |-> cols]

Vocab == {Null, NoneC, IntC(1), StrC(Email), StrC(Phone), ListC}
LongVocabs == {{Null, StrC(Email)}, {IntC(1), IntC(9)}}

\* tables of at most maxcells cells and maxcols columns over Vocab (also with
\* no rows or no columns)
SmallTables(maxcells, maxcols) ==
  {Table(n, cols) : n \in {0, 1}, cols \in {<<>>}}
  \cup UNION {UNION {{Table(n, [c \in 1..m |-> Construct(cols[c])]) :
                          cols \in [1..m -> [1..n -> Vocab]]}
                       : n \in {r \in 0..maxcells : r * m <= maxcells}}
                : m \in 1..maxcols}
\* one long column of lo to hi rows over two values
LongTables(lo, hi) ==
  UNION {UNION {{Table(n, <<col>>) : col \in [1..n -> V]}
                  : n \in lo..hi}
           : V \in LongVocabs}

DataInputs(maxcells, maxcols, maxrows) ==
  {NotMapping, NoKey, NotTable} \cup SmallTables(maxcells, maxcols)
  \cup LongTables(maxcells + 1, maxrows)

\* the cells of the typed columns: booleans, integers, text (the spellings of
\* true and false, a number, a date, other text), timestamps, a date object, a
\* list, missing (NaN and None)
TrueText == <<"t", "r", "u", "e">>
FalseText == <<"f", "a", "l", "s", "e">>
TypeVocab == {Null, BoolC(TRUE), BoolC(FALSE), IntC(0), IntC(1), IntC(7),
              StrC(TrueText), StrC(FalseText), StrC(<<"7">>), StrC(IsoDate), StrC(Email),
              TsC(1), TsC(2), DateC(1), ListC, NoneC}
\* the tables of one column of lo to hi cells over the cells V
RECURSIVE ColumnTables(_, _, _)
ColumnTables(V, lo, hi) ==
  IF hi < lo THEN {}
  ELSE {Table(hi, <<Construct(column)>>) : column \in [1..hi -> V]}
       \cup ColumnTables(V, lo, hi - 1)
\* one column of at most hi cells over TypeVocab
TypeTables(hi) == ColumnTables(TypeVocab, 1, hi)
\* one column of 10 to hi texts, each a number or not
TextTables(hi) == ColumnTables({StrC(<<"7">>), StrC(Email)}, 10, hi)

\* config: a mapping holding any of the three options; thresholds in tenths
SampleSizeOptions == {[key \in {} |-> 0]} \cup {[sample_size |-> v] : v \in {-1, 0, 2}}
ThresholdOptions == {[key \in {} |-> 0]} \cup {[pattern_threshold |-> v] : v \in {-1, 0, 10, 15}}
LearningOptions == {[key \in {} |-> TRUE]} \cup {[enable_learning |-> v] : v \in {FALSE}}
Configs == {a @@ b @@ c : a \in SampleSizeOptions, b \in ThresholdOptions, c \in LearningOptions}

\* what the learning collaborator may answer
AttributeError == [type |-> "AttributeError", msg |-> "no such attribute"]
RuntimeError == [type |-> "RuntimeError", msg |-> "boom"]
TypeError == [type |-> "TypeError", msg |-> "argument of type 'NoneType' is not iterable"]
Exceptions == {AttributeError, RuntimeError}
Returns(v) == [kind |-> "return", value |-> v, exc |-> RuntimeError]
Raises(e) == [kind |-> "raise", value |-> "", exc |-> e]
\* suggest_column_type returns a type name, or nothing ("" stands for None)
Suggestions == {"", "currency"}

NoneVal == [none |-> TRUE]

(***************************************************************************)
(* State.                                                                  *)
(***************************************************************************)
VARIABLES
  data,              \* execute's argument data
  config,            \* execute's argument config
  learning_history,  \* TRUE when the profiler was built with a collaborator
  pc,                \* the stage execute is about to run, or "done"
  col,               \* the column the profiling loop is at
  df,                \* the row labels of the table being profiled, in order
  sampled,
  original_size,
  profile,           \* column profiles, by column
  patterns,          \* pattern results, by column
  correlations,
  missing_patterns,
  quality_score,
  result,            \* what execute returned, once pc = "done"
  calls,             \* the calls made on the learning collaborator, in order
  stages,            \* the stages run so far, with the row labels each read
  raised             \* the exceptions raised so far, with the stage

\* LearningHistoryManager (src/utils/learning_history.py), the threads
\* that call its store_operation, and one more thread that calls its
\* clear_old_history, load_history and save_history
VARIABLES
  history,           \* self.history: the records, in order
  _lock,             \* self._lock: the thread holding it, 0 when free
  thread_pc,         \* each thread's position in store_operation
  completed,         \* the calls each thread has returned from
  history_file,      \* the file named by self.history_file
  maint_pc,          \* the other thread's position in the call it is making
  history_data,      \* save_history's local copy of the records
  maint_done         \* the calls the other thread has returned from, in order

hvars == <<history, _lock, thread_pc, completed,
           history_file, maint_pc, history_data, maint_done>>

vars == <<data, config, learning_history, pc, col, df, sampled, original_size,
          profile, patterns, correlations, missing_patterns, quality_score,
          result, calls, stages, raised, history, _lock, thread_pc, completed,
          history_file, maint_pc, history_data, maint_done>>

\* the history file: absent, not readable as JSON, or a JSON list of records
NoFile == [state |-> "absent", records |-> <<>>]
Unreadable == [state |-> "unreadable", records |-> <<>>]
JsonFile(records) == [state |-> "json", records |-> records]

\* a manager with an empty history and no history file, that no thread calls
NoThreads ==
  /\ history = <<>>
  /\ _lock = 0
  /\ thread_pc = <<>>
  /\ completed = <<>>
  /\ history_file = NoFile
  /\ maint_pc = "idle"
  /\ history_data = <<>>
  /\ maint_done = <<>>

\* one numeric column of 4 to hi values around the fences of the
\* quartiles 25 and 75
FenceValues == {-76, -75, 25, 75, 175, 176}
FenceTables(hi) == ColumnTables({IntC(v) : v \in FenceValues}, 4, hi)

\* one long column whose cells cycle through a number of distinct values:
\* integers, texts (runs of the letter a), or integers with the last cell
\* missing; the row counts and numbers of distinct values lie around the
\* thresholds 10, 50 and 5% of the categorical rule
CategoryRows == {r \in {11, 100, 220, 221, 1000} : r <= MaxCategoryRows} \cup {MaxCategoryRows}
CategoryDistincts == {3, 10, 11, 40, 49, 50, 60}
CycleCell(kind, i, rows, distinct) ==
  CASE kind = "int" -> IntC((i - 1) % distinct)
    [] kind = "str" -> StrC([j \in 1..(((i - 1) % distinct) + 1) |-> "a"])
    [] OTHER -> IF i = rows THEN Null ELSE IntC((i - 1) % distinct)
CategoryTables ==
  {Table(rows, <<[i \in 1..rows |-> CycleCell(kind, i, rows, distinct)]>>) :
     kind \in {"int", "str", "gap"}, rows \in CategoryRows,
     distinct \in {d \in CategoryDistincts : d <= MaxCategoryRows}}
  \cup ColumnTables({Null, IntC(1), ListC}, 1, 2)

\* the state of execute at its call on one of the long tables, learning off
InitCategory ==
  /\ data \in CategoryTables
  /\ config = [enable_learning |-> FALSE]
  /\ learning_history = FALSE
  /\ pc = "ValidateInput"
  /\ col = 1
  /\ df = <<>>
  /\ sampled = FALSE
  /\ original_size = 0
  /\ profile = <<>>
  /\ patterns = <<>>
  /\ correlations = EmptyMap
  /\ missing_patterns = <<>>
  /\ quality_score = NaN
  /\ result = NoneVal
  /\ calls = <<>>
  /\ stages = <<>>
  /\ raised = <<>>
  /\ NoThreads

\* one column of at most hi cells among an email, a phone number,
\* a date, an integer and a missing cell (NaN, None); and one column of HeadSample + 1
\* cells, emails but for an integer that is the first, the last of the first
\* HeadSample, or the last cell (or no cell: place 0)
PatternVocab == {Null, NoneC, StrC(Email), StrC(Phone), StrC(IsoDate), IntC(1)}
SampledTextTables ==
  {Table(HeadSample + 1,
         <<[i \in 1..(HeadSample + 1) |-> IF i = place THEN IntC(1) ELSE StrC(Email)]>>) :
     place \in {0, 1, HeadSample, HeadSample + 1}}
PatternTables(hi) == ColumnTables(PatternVocab, 1, hi) \cup SampledTextTables
PatternThresholdOptions ==
  {[enable_learning |-> FALSE]}
  \cup {[enable_learning |-> FALSE, pattern_threshold |-> v] : v \in {0, 5, 10}}

\* the state of execute at its call on one of the text tables, learning off
InitPattern ==
  /\ data \in PatternTables(MaxPatternRows)
  /\ config \in PatternThresholdOptions
  /\ learning_history = FALSE
  /\ pc = "ValidateInput"
  /\ col = 1
  /\ df = <<>>
  /\ sampled = FALSE
  /\ original_size = 0
  /\ profile = <<>>
  /\ patterns = <<>>
  /\ correlations = EmptyMap
  /\ missing_patterns = <<>>
  /\ quality_score = NaN
  /\ result = NoneVal
  /\ calls = <<>>
  /\ stages = <<>>
  /\ raised = <<>>
  /\ NoThreads

\* tables of three rows and at most MaxCorrCols columns, each column one of:
\* integers that vary, constant integers, integers with a missing cell, NaN
\* alone (a float column), None alone (an object column), text, integers and
\* text together
CorrColumns == {<<IntC(1), IntC(1), IntC(2)>>, <<IntC(1), IntC(2), IntC(1)>>,
                <<IntC(1), IntC(1), IntC(1)>>, <<Null, IntC(1), IntC(2)>>,
                <<Null, Null, Null>>, <<NoneC, NoneC, NoneC>>,
                <<StrC(Email), StrC(Email), StrC(Email)>>,
                <<IntC(1), StrC(Email), IntC(2)>>}
RECURSIVE CorrTables(_)
CorrTables(m) ==
  IF m < 1 THEN {}
  ELSE {Table(3, cols) : cols \in [1..m -> CorrColumns]} \cup CorrTables(m - 1)

\* the state of execute at its call on one of these tables, learning off
InitCorrelation ==
  /\ data \in CorrTables(MaxCorrCols)
  /\ config = [enable_learning |-> FALSE]
  /\ learning_history = FALSE
  /\ pc = "ValidateInput"
  /\ col = 1
  /\ df = <<>>
  /\ sampled = FALSE
  /\ original_size = 0
  /\ profile = <<>>
  /\ patterns = <<>>
  /\ correlations = EmptyMap
  /\ missing_patterns = <<>>
  /\ quality_score = NaN
  /\ result = NoneVal
  /\ calls = <<>>
  /\ stages = <<>>
  /\ raised = <<>>
  /\ NoThreads

\* the state of execute at its call on one of the numeric tables, learning off
InitOutlier ==
  /\ data \in FenceTables(MaxFenceRows)
  /\ config = [enable_learning |-> FALSE]
  /\ learning_history = FALSE
  /\ pc = "ValidateInput"
  /\ col = 1
  /\ df = <<>>
  /\ sampled = FALSE
  /\ original_size = 0
  /\ profile = <<>>
  /\ patterns = <<>>
  /\ correlations = EmptyMap
  /\ missing_patterns = <<>>
  /\ quality_score = NaN
  /\ result = NoneVal
  /\ calls = <<>>
  /\ stages = <<>>
  /\ raised = <<>>
  /\ NoThreads

\* the state of execute at its call on one of the typed tables, learning off
InitClassifier ==
  /\ data \in TypeTables(MaxTypeRows) \cup TextTables(MaxTextRows)
  /\ config = [enable_learning |-> FALSE]
  /\ learning_history = FALSE
  /\ pc = "ValidateInput"
  /\ col = 1
  /\ df = <<>>
  /\ sampled = FALSE
  /\ original_size = 0
  /\ profile = <<>>
  /\ patterns = <<>>
  /\ correlations = EmptyMap
  /\ missing_patterns = <<>>
  /\ quality_score = NaN
  /\ result = NoneVal
  /\ calls = <<>>
  /\ stages = <<>>
  /\ raised = <<>>
  /\ NoThreads

Init ==
  /\ data \in DataInputs(MaxCells, MaxCols, MaxSparseRows)
  /\ config \in Configs
  /\ learning_history \in BOOLEAN
  /\ pc = "ValidateInput"
  /\ col = 1
  /\ df = <<>>
  /\ sampled = FALSE
  /\ original_size = 0
  /\ profile = <<>>
  /\ patterns = <<>>
  /\ correlations = EmptyMap
  /\ missing_patterns = <<>>
  /\ quality_score = NaN
  /\ result = NoneVal
  /\ calls = <<>>
  /\ stages = <<>>
  /\ raised = <<>>
  /\ NoThreads

(***************************************************************************)
(* Validation.                                                             *)
(***************************************************************************)
\* DataFrame.empty: no rows or no columns
Empty(d) == d.nrows = 0 \/ Len(d.columns) = 0

\* validate_input with the emptiness test moved before the type test
validate_input_empty_first(d) ==
  IF d.kind = "no_key" THEN <<"Missing required field: 'dataframe'">>
  ELSE IF Empty(d) THEN <<"'dataframe' cannot be empty">>
  ELSE IF d.kind = "not_table" THEN <<"'dataframe' must be a pandas DataFrame">>
  ELSE <<>>

validate_input(d) ==
  IF d.kind = "no_key" THEN <<"Missing required field: 'dataframe'">>
  ELSE IF d.kind = "not_table" THEN <<"'dataframe' must be a pandas DataFrame">>
  ELSE IF Empty(d) THEN <<"'dataframe' cannot be empty">>
  ELSE <<>>

\* _validate_config with the bounds taken strictly (0 and 1 rejected)
_validate_config_strict(cfg) ==
  LET sample_size == Get(cfg, "sample_size", DefaultSampleSize)
      pattern_threshold == Get(cfg, "pattern_threshold", DefaultPatternThresholdTenths)
  IN (IF sample_size <= 0 THEN <<"Invalid sample_size: must be positive">> ELSE <<>>)
     \o (IF ~(0 < pattern_threshold /\ pattern_threshold < 10)
         THEN <<"Invalid pattern_threshold: must be between 0 and 1">> ELSE <<>>)

_validate_config(cfg) ==
  LET sample_size == Get(cfg, "sample_size", DefaultSampleSize)
      pattern_threshold == Get(cfg, "pattern_threshold", DefaultPatternThresholdTenths)
  IN (IF sample_size < 0 THEN <<"Invalid sample_size: must be positive">> ELSE <<>>)
     \o (IF ~(0 <= pattern_threshold /\ pattern_threshold <= 10)
         THEN <<"Invalid pattern_threshold: must be between 0 and 1">> ELSE <<>>)

enable_learning == Get(config, "enable_learning", TRUE)
sample_size == Get(config, "sample_size", DefaultSampleSize)
pattern_threshold == Get(config, "pattern_threshold", DefaultPatternThresholdTenths)

\* the switch ignored: learning whenever a collaborator is configured
LearningIgnoringSwitch == learning_history

\* "if enable_learning and self.learning_history"
LearningActive == enable_learning /\ learning_history

(***************************************************************************)
(* The table being profiled.                                               *)
(***************************************************************************)
AllLabels(n) == [i \in 1..n |-> i - 1]
\* df[column]: the cells of a column at the given row labels
Series(column, labels) == [i \in 1..Len(labels) |-> data.columns[column][labels[i] + 1]]
Storages == [c \in 1..Len(data.columns) |-> StorageOf(data.columns[c])]

\* RandomState(42).permutation(n) for n = 1..9: the Mersenne Twister seeded
\* with 42 driving the Fisher-Yates shuffle of 0..n-1.  df.sample(n=k,
\* random_state=42) takes the rows at the first k of these positions
\* (RandomState.choice without replacement is permutation(n)[:k]).
SeededPermutation ==
  << <<0>>,
     <<1, 0>>,
     <<0, 1, 2>>,
     <<1, 3, 0, 2>>,
     <<1, 4, 2, 0, 3>>,
     <<0, 1, 5, 2, 4, 3>>,
     <<0, 1, 5, 2, 4, 3, 6>>,
     <<1, 5, 0, 7, 2, 4, 3, 6>>,
     <<7, 1, 5, 0, 8, 2, 4, 3, 6>> >>

\* no sampling at all
_sample_dataframe_noop(labels, n) == {labels}

\* sampling without the fixed seed: any n distinct rows in any order
_sample_dataframe_unseeded(labels, n) ==
  IF Len(labels) > n THEN InjectiveSeqs(Range(labels), n) ELSE {labels}

\* df.sample(n=sample_size, random_state=42) when the table has more than
\* sample_size rows, else the table itself; the set of the possible outcomes
_sample_dataframe(labels, n) ==
  IF Len(labels) > n
  THEN {[i \in 1..n |-> labels[SeededPermutation[Len(labels)][i] + 1]]}
  ELSE {labels}

_analyze_missing_patterns(labels) ==
  [c \in 1..Len(data.columns) |-> MissingRecord(Series(c, labels), labels)]

NoFact == [type |-> "", confidence |-> 0]

\* the email test before the id test
RecordFactEmailFirst(col_patterns) ==
  IF Get(col_patterns, "is_email", FALSE) THEN [type |-> "email", confidence |-> 95]
  ELSE IF Get(col_patterns, "is_id", FALSE) THEN [type |-> "id", confidence |-> 90]
  ELSE IF Get(col_patterns, "is_phone", FALSE) THEN [type |-> "phone", confidence |-> 90]
  ELSE IF Get(col_patterns, "is_categorical", FALSE)
       THEN [type |-> "categorical", confidence |-> 85]
  ELSE NoFact

\* a fact for every column, "unknown" when no flag is set
RecordFactAlways(col_patterns) ==
  IF Get(col_patterns, "is_id", FALSE) THEN [type |-> "id", confidence |-> 90]
  ELSE IF Get(col_patterns, "is_email", FALSE) THEN [type |-> "email", confidence |-> 95]
  ELSE IF Get(col_patterns, "is_phone", FALSE) THEN [type |-> "phone", confidence |-> 90]
  ELSE IF Get(col_patterns, "is_categorical", FALSE)
       THEN [type |-> "categorical", confidence |-> 85]
  ELSE [type |-> "unknown", confidence |-> 50]

\* the fact execute records for a column, from its pattern flags
RecordFact(col_patterns) ==
  IF Get(col_patterns, "is_id", FALSE) THEN [type |-> "id", confidence |-> 90]
  ELSE IF Get(col_patterns, "is_email", FALSE) THEN [type |-> "email", confidence |-> 95]
  ELSE IF Get(col_patterns, "is_phone", FALSE) THEN [type |-> "phone", confidence |-> 90]
  ELSE IF Get(col_patterns, "is_categorical", FALSE)
       THEN [type |-> "categorical", confidence |-> 85]
  ELSE NoFact

\* a bare except around get_learned_patterns
CaughtAnything(exc) == TRUE

\* the except clause around get_learned_patterns
CaughtAtGetLearned(exc) == exc.type = "AttributeError"

\* a call on the collaborator: the operation, its column, the recorded fact
\* (record_pattern) and the value returned (suggest_column_type)
Call(op, column, fact, returned) ==
  [op |-> op, column |-> column, type |-> fact.type, confidence |-> fact.confidence,
   returned |-> returned]

(***************************************************************************)
(* execute, stage by stage.  Fail is the top-level except clause and the   *)
(* two validation returns: success false, no data, the errors.             *)
(***************************************************************************)
\* a failure that hands back the columns profiled so far
FailureKeepingProfile(errors) ==
  [success |-> FALSE, data |-> [profile |-> profile], errors |-> errors]

Failure(errors) == [success |-> FALSE, data |-> NoneVal, errors |-> errors]

Stage(name) == [stage |-> name, column |-> 0, rows |-> df]

\* the statement order with the missing-value analysis before the correlations
StageAfterSwapped(stage) ==
  CASE stage = "ValidateInput" -> "ValidateConfig"
    [] stage = "ValidateConfig" -> "Sample"
    [] stage = "Sample" -> "GetLearnedPatterns"
    [] stage = "GetLearnedPatterns" -> "ProfileColumns"
    [] stage = "ProfileColumns" -> "AnalyzeMissing"
    [] stage = "AnalyzeMissing" -> "Correlate"
    [] stage = "Correlate" -> "Score"
    [] stage = "Score" -> "Assemble"
    [] OTHER -> "done"

\* the statement order of execute
StageAfter(stage) ==
  CASE stage = "ValidateInput" -> "ValidateConfig"
    [] stage = "ValidateConfig" -> "Sample"
    [] stage = "Sample" -> "GetLearnedPatterns"
    [] stage = "GetLearnedPatterns" -> "ProfileColumns"
    [] stage = "ProfileColumns" -> "Correlate"
    [] stage = "Correlate" -> "AnalyzeMissing"
    [] stage = "AnalyzeMissing" -> "Score"
    [] stage = "Score" -> "Assemble"
    [] OTHER -> "done"

ValidateInput ==
  /\ UNCHANGED hvars
  /\ pc = "ValidateInput"
  /\ stages' = Append(stages, Stage("ValidateInput"))
  /\ IF data.kind = "not_mapping"
     THEN /\ raised' = Append(raised, [stage |-> "ValidateInput", exc |-> TypeError])
          /\ result' = Failure(<<TypeError.msg>>)
          /\ pc' = "done"
     ELSE /\ raised' = raised
          /\ IF validate_input(data) # <<>>
             THEN result' = Failure(validate_input(data)) /\ pc' = "done"
             ELSE result' = result /\ pc' = StageAfter(pc)
  /\ UNCHANGED <<data, config, learning_history, col, df, sampled, original_size,
                 profile, patterns, correlations, missing_patterns, quality_score, calls>>

ValidateConfig ==
  /\ UNCHANGED hvars
  /\ pc = "ValidateConfig"
  /\ stages' = Append(stages, Stage("ValidateConfig"))
  /\ IF _validate_config(config) # <<>>
     THEN result' = Failure(_validate_config(config)) /\ pc' = "done"
     ELSE result' = result /\ pc' = StageAfter(pc)
  /\ UNCHANGED <<data, config, learning_history, col, df, sampled, original_size,
                 profile, patterns, correlations, missing_patterns, quality_score,
                 calls, raised>>

\* the sampling done on the caller's table: the rows not drawn are dropped in
\* place and the rows kept are relabelled
SampleInPlace ==
  /\ UNCHANGED hvars
  /\ pc = "Sample"
  /\ original_size' = data.nrows
  /\ sampled' = (data.nrows > sample_size)
  /\ \E rows \in _sample_dataframe(AllLabels(data.nrows), sample_size) :
       /\ data' = [data EXCEPT
                     !.nrows = Len(rows),
                     !.columns = [c \in 1..Len(data.columns) |->
                                    [i \in 1..Len(rows) |-> data.columns[c][rows[i] + 1]]]]
       /\ df' = AllLabels(Len(rows))
  /\ stages' = IF data.nrows > sample_size
               THEN Append(stages, [stage |-> "Sample", column |-> 0, rows |-> df'])
               ELSE stages
  /\ pc' = StageAfter(pc)
  /\ UNCHANGED <<config, learning_history, col, profile, patterns, correlations,
                 missing_patterns, quality_score, result, calls, raised>>

Sample ==
  /\ UNCHANGED hvars
  /\ pc = "Sample"
  /\ original_size' = data.nrows
  /\ sampled' = (data.nrows > sample_size)
  /\ df' \in _sample_dataframe(AllLabels(data.nrows), sample_size)
  /\ stages' = IF data.nrows > sample_size
               THEN Append(stages, [stage |-> "Sample", column |-> 0, rows |-> df'])
               ELSE stages
  /\ pc' = StageAfter(pc)
  /\ UNCHANGED <<data, config, learning_history, col, profile, patterns, correlations,
                 missing_patterns, quality_score, result, calls, raised>>

GetLearnedPatterns ==
  /\ UNCHANGED hvars
  /\ pc = "GetLearnedPatterns"
  /\ IF LearningActive
     THEN \E resp \in {Returns("")} \cup {Raises(e) : e \in Exceptions} :
            /\ calls' = Append(calls, Call("get_learned_patterns", 0, NoFact, ""))
            /\ IF resp.kind = "return"
               THEN raised' = raised /\ result' = result /\ pc' = StageAfter(pc)
               ELSE /\ raised' = Append(raised, [stage |-> "GetLearnedPatterns", exc |-> resp.exc])
                    /\ IF CaughtAtGetLearned(resp.exc)
                       THEN result' = result /\ pc' = StageAfter(pc)
                       ELSE result' = Failure(<<resp.exc.msg>>) /\ pc' = "done"
     ELSE calls' = calls /\ raised' = raised /\ result' = result /\ pc' = StageAfter(pc)
  /\ UNCHANGED <<data, config, learning_history, col, df, sampled, original_size,
                 profile, patterns, correlations, missing_patterns, quality_score, stages>>

\* one iteration of "for column in df.columns"
ProfileColumn ==
  /\ UNCHANGED hvars
  /\ pc = "ProfileColumns"
  /\ LET series == Series(col, df)
         storage == Storages[col]
         col_profile == _profile_column(series, storage)
         col_patterns == _detect_patterns(series, storage, pattern_threshold)
         fact == RecordFact(col_patterns)
         suggest_call(returned) == Call("suggest_column_type", col, NoFact, returned)
         record_call == Call("record_pattern", col, fact, "")
         last == col = Len(data.columns)
         Continue(p) == /\ profile' = Append(profile, p)
                        /\ patterns' = Append(patterns, col_patterns)
                        /\ col' = col + 1
                        /\ pc' = IF last THEN StageAfter(pc) ELSE pc
                        /\ result' = result
         \* the collaborator raised: the column's profile (p) and patterns are
         \* already stored, the loop does not reach the next column
         Abort(exc, p) == /\ raised' = Append(raised, [stage |-> "ProfileColumns", exc |-> exc])
                          /\ result' = Failure(<<exc.msg>>)
                          /\ pc' = "done"
                          /\ profile' = Append(profile, p)
                          /\ patterns' = Append(patterns, col_patterns)
                          /\ col' = col
     IN /\ stages' = Append(stages, [stage |-> "ProfileColumn", column |-> col, rows |-> df])
        /\ IF LearningActive
           THEN \E sresp \in {Returns(s) : s \in Suggestions} \cup {Raises(e) : e \in Exceptions} :
                  IF sresp.kind = "raise"
                  THEN calls' = Append(calls, suggest_call("")) /\ Abort(sresp.exc, col_profile)
                  ELSE LET p == IF sresp.value # ""
                                THEN [suggested_type |-> sresp.value] @@ col_profile
                                ELSE col_profile
                       IN IF fact = NoFact
                          THEN /\ calls' = Append(calls, suggest_call(sresp.value))
                               /\ raised' = raised
                               /\ Continue(p)
                          ELSE \E rresp \in {Returns("")} \cup {Raises(e) : e \in Exceptions} :
                                 /\ calls' = calls \o <<suggest_call(sresp.value), record_call>>
                                 /\ IF rresp.kind = "raise"
                                    THEN Abort(rresp.exc, p)
                                    ELSE raised' = raised /\ Continue(p)
           ELSE calls' = calls /\ raised' = raised /\ Continue(col_profile)
  /\ UNCHANGED <<data, config, learning_history, df, sampled, original_size,
                 correlations, missing_patterns, quality_score>>

Correlate ==
  /\ UNCHANGED hvars
  /\ pc = "Correlate"
  /\ correlations' = _calculate_correlations([c \in 1..Len(data.columns) |-> Series(c, df)], Storages)
  /\ stages' = Append(stages, Stage("Correlate"))
  /\ pc' = StageAfter(pc)
  /\ UNCHANGED <<data, config, learning_history, col, df, sampled, original_size,
                 profile, patterns, missing_patterns, quality_score, result, calls, raised>>

AnalyzeMissing ==
  /\ UNCHANGED hvars
  /\ pc = "AnalyzeMissing"
  /\ missing_patterns' = _analyze_missing_patterns(df)
  /\ stages' = Append(stages, Stage("AnalyzeMissing"))
  /\ pc' = StageAfter(pc)
  /\ UNCHANGED <<data, config, learning_history, col, df, sampled, original_size,
                 profile, patterns, correlations, quality_score, result, calls, raised>>

Score ==
  /\ UNCHANGED hvars
  /\ pc = "Score"
  /\ quality_score' = _calculate_quality_score(profile, correlations, missing_patterns)
  /\ stages' = Append(stages, Stage("Score"))
  /\ pc' = StageAfter(pc)
  /\ UNCHANGED <<data, config, learning_history, col, df, sampled, original_size,
                 profile, patterns, correlations, missing_patterns, result, calls, raised>>

Assemble ==
  /\ UNCHANGED hvars
  /\ pc = "Assemble"
  /\ result' = [success |-> TRUE,
                data |-> [profile |-> profile,
                          patterns |-> patterns,
                          correlations |-> correlations,
                          missing_patterns |-> missing_patterns,
                          quality_score |-> quality_score,
                          metadata |-> [sampled |-> sampled,
                                        sample_size |-> Len(df),
                                        original_size |-> original_size]],
                errors |-> <<>>]
  /\ stages' = Append(stages, Stage("Assemble"))
  /\ pc' = StageAfter(pc)
  /\ UNCHANGED <<data, config, learning_history, col, df, sampled, original_size,
                 profile, patterns, correlations, missing_patterns, quality_score,
                 calls, raised>>

(***************************************************************************)
(* LearningHistoryManager.  store_operation is called by NumThreads         *)
(* threads, CallsPerThread times each (add_operations of                    *)
(* test_thread_safety): a call takes the lock, builds the record and        *)
(* appends it, and releases the lock on leaving the with block.  One more   *)
(* thread makes up to MaxMaintCalls calls of clear_old_history,             *)
(* load_history and save_history, one after the other.  A with block of    *)
(* these is one step, entered when the lock is free and left with the lock  *)
(* free again.  load_history reads the file, which that thread alone        *)
(* writes, in the step of its with block; save_history opens and writes     *)
(* the file in two more steps, after its with block, whoever holds the      *)
(* lock by then.  Time is counted in days.                                  *)
(***************************************************************************)
Threads == 1..NumThreads

\* datetime.utcnow(), as a day number
utcnow == 100

\* the operation of call i (from 0) of a thread, as the test builds it, and
\* the record store_operation makes of it; by is the calling thread
OperationRecord(t, i) ==
  [type |-> i % 3, input |-> i, success |-> (i % 2 = 0), error |-> NoneVal,
   timestamp |-> utcnow, by |-> t]
\* a record, stored 40 days ago, that load_history finds in the history file
LoadedRecord ==
  [type |-> 0, input |-> 0, success |-> TRUE, error |-> NoneVal,
   timestamp |-> utcnow - 40, by |-> 0]

\* OperationRecord.to_dict: the timestamp becomes its ISO text
to_dict(record) == [record EXCEPT !.timestamp = [iso |-> record.timestamp]]
\* OperationRecord.from_dict: the ISO text becomes a datetime again
from_dict(item) == [item EXCEPT !.timestamp = item.timestamp.iso]

\* history.append that replaces the last record
AppendOverLast(records, record) ==
  IF records = <<>> THEN <<record>> ELSE [records EXCEPT ![Len(records)] = record]

\* self.history.append(record)
AppendRecord(records, record) == Append(records, record)

\* "[record for record in self.history if record.timestamp > cutoff_date]"
NewerThan(records, cutoff_date) ==
  SelectSeq(records, LAMBDA record : record.timestamp > cutoff_date)

\* what load_history leaves in self.history, called in one piece
Loaded(file, records) ==
  CASE file.state = "absent" -> records
    [] file.state = "unreadable" -> <<>>
    [] OTHER -> [i \in 1..Len(file.records) |-> from_dict(file.records[i])]

mvars == <<history_file, maint_pc, history_data, maint_done>>

\* with self._lock: (entry)
Acquire(t) ==
  /\ thread_pc[t] = "call"
  /\ _lock = 0
  /\ _lock' = t
  /\ thread_pc' = [thread_pc EXCEPT ![t] = "locked"]
  /\ UNCHANGED <<history, completed, mvars>>

\* the body: the record is built and appended
StoreRecord(t) ==
  /\ thread_pc[t] = "locked"
  /\ history' = AppendRecord(history, OperationRecord(t, completed[t]))
  /\ thread_pc' = [thread_pc EXCEPT ![t] = "stored"]
  /\ UNCHANGED <<_lock, completed, mvars>>

\* with self._lock: (exit), and the return to add_operations' loop
Release(t) ==
  /\ thread_pc[t] = "stored"
  /\ _lock' = 0
  /\ completed' = [completed EXCEPT ![t] = completed[t] + 1]
  /\ thread_pc' = [thread_pc EXCEPT ![t] =
                     IF completed[t] + 1 = CallsPerThread THEN "joined" ELSE "call"]
  /\ UNCHANGED <<history, mvars>>

ProfilerVars == <<data, config, learning_history, pc, col, df, sampled, original_size,
                  profile, patterns, correlations, missing_patterns, quality_score,
                  result, calls, stages, raised>>

AcquireLock == (\E t \in Threads : Acquire(t)) /\ UNCHANGED ProfilerVars
Store == (\E t \in Threads : StoreRecord(t)) /\ UNCHANGED ProfilerVars
ReleaseLock == (\E t \in Threads : Release(t)) /\ UNCHANGED ProfilerVars

\* the other thread may make a call
MaintIdle == maint_pc = "idle" /\ Len(maint_done) < MaxMaintCalls
\* the other thread returns from a call
Returned(name) == maint_pc' = "idle" /\ maint_done' = Append(maint_done, name)
\* what no call of the other thread changes
StoreVars == <<_lock, thread_pc, completed>>

\* clear_old_history(days): the days asked for are at least 1, so that a
\* record stamped while the call runs is newer than the cutoff
ClearDays == {30}

\* clear_old_history: self.history becomes the list of the records newer
\* than the cutoff date
clear_old_history ==
  /\ MaintIdle
  /\ _lock = 0
  /\ \E days \in ClearDays : history' = NewerThan(history, utcnow - days)
  /\ Returned("clear_old_history")
  /\ UNCHANGED <<history_file, history_data, StoreVars, ProfilerVars>>

\* load_history: no file, nothing to do; a file of JSON, self.history
\* becomes its records, under the lock; a file that is not JSON, the except
\* branch does "self.history = []", whoever holds the lock
load_history ==
  /\ MaintIdle
  /\ history_file.state = "json" => _lock = 0
  /\ history' = Loaded(history_file, history)
  /\ Returned("load_history")
  /\ UNCHANGED <<history_file, history_data, StoreVars, ProfilerVars>>

\* save_history, the with block:
\* "history_data = [record.to_dict() for record in self.history]"
SaveCopy ==
  /\ MaintIdle
  /\ _lock = 0
  /\ history_data' = [i \in 1..Len(history) |-> to_dict(history[i])]
  /\ maint_pc' = "save_copied"
  /\ UNCHANGED <<history, history_file, maint_done, StoreVars, ProfilerVars>>

\* "with open(self.history_file, 'w') as f": the file is emptied, which is
\* not JSON; or open raises, the error is logged and the call returns
SaveOpen ==
  /\ maint_pc = "save_copied"
  /\ \E opened \in BOOLEAN :
       IF opened
         THEN /\ history_file' = Unreadable
              /\ maint_pc' = "save_opened"
              /\ UNCHANGED <<history_data, maint_done>>
         ELSE /\ Returned("save_history")
              /\ history_data' = <<>>
              /\ UNCHANGED history_file
  /\ UNCHANGED <<history, StoreVars, ProfilerVars>>

\* "json.dump(history_data, f, indent=2)", and the return; or the write
\* raises, the error is logged and the call returns, the file left emptied
\* or part written, which is not JSON
SaveWrite ==
  /\ maint_pc = "save_opened"
  /\ \E written \in BOOLEAN :
       history_file' = IF written THEN JsonFile(history_data) ELSE Unreadable
  /\ Returned("save_history")
  /\ history_data' = <<>>
  /\ UNCHANGED <<history, StoreVars, ProfilerVars>>

\* save_history, step by step
save_history == SaveCopy \/ SaveOpen \/ SaveWrite

\* the files __init__ may find
InitialFiles == {NoFile, Unreadable, JsonFile(<<to_dict(LoadedRecord)>>)}

\* the manager after __init__ (which ends with load_history) and the
\* threads started; no execute is running
InitHistory ==
  /\ data = NotMapping
  /\ config = EmptyMap
  /\ learning_history = FALSE
  /\ pc = "idle"
  /\ col = 1
  /\ df = <<>>
  /\ sampled = FALSE
  /\ original_size = 0
  /\ profile = <<>>
  /\ patterns = <<>>
  /\ correlations = EmptyMap
  /\ missing_patterns = <<>>
  /\ quality_score = NaN
  /\ result = NoneVal
  /\ calls = <<>>
  /\ stages = <<>>
  /\ raised = <<>>
  /\ history_file \in InitialFiles
  /\ history = Loaded(history_file, <<>>)
  /\ _lock = 0
  /\ thread_pc = [t \in Threads |-> "call"]
  /\ completed = [t \in Threads |-> 0]
  /\ maint_pc = "idle"
  /\ history_data = <<>>
  /\ maint_done = <<>>

HistoryNext ==
  \/ AcquireLock
  \/ Store
  \/ ReleaseLock
  \/ clear_old_history
  \/ load_history
  \/ SaveCopy
  \/ SaveOpen
  \/ SaveWrite

HistorySpec == InitHistory /\ [][HistoryNext]_vars

Next ==
  \/ ValidateInput
  \/ ValidateConfig
  \/ Sample
  \/ GetLearnedPatterns
  \/ ProfileColumn
  \/ Correlate
  \/ AnalyzeMissing
  \/ Score
  \/ Assemble

Spec == Init /\ [][Next]_vars

\* execute on the numeric tables
OutlierSpec == InitOutlier /\ [][Next]_vars

\* execute on the typed tables
ClassifierSpec == InitClassifier /\ [][Next]_vars

\* execute on the long tables
CategorySpec == InitCategory /\ [][Next]_vars

\* execute on the text tables
PatternSpec == InitPattern /\ [][Next]_vars

\* execute on the tables of several columns
CorrelationSpec == InitCorrelation /\ [][Next]_vars

(***************************************************************************)
(* Properties.                                                             *)
(***************************************************************************)
Done == pc = "done"
Succeeded == Done /\ result.success
Failed == Done /\ ~result.success
NumCols == Len(data.columns)
IsPrefix(a, b) == Len(a) <= Len(b) /\ SubSeq(b, 1, Len(a)) = a
StageNames == [i \in 1..Len(stages) |-> stages[i].stage]

\* the stage execute is at exists and its step can be taken
CanStep ==
  /\ pc \in {"ValidateInput", "ValidateConfig", "Sample", "GetLearnedPatterns",
              "ProfileColumns", "Correlate", "AnalyzeMissing", "Score", "Assemble"}
  /\ pc = "Sample" => _sample_dataframe(AllLabels(data.nrows), sample_size) # {}
  /\ pc = "ProfileColumns" => col \in 1..NumCols

\* C1: execute always returns, and what it returns is either a success with
\* data and no errors or a failure with no data and at least one error; until
\* it returns there is no result and a next step exists.
C1_ResultShape ==
  /\ Done => \/ /\ result.success = TRUE
                /\ result.data # NoneVal
                /\ DOMAIN result.data = {"profile", "patterns", "correlations",
                                         "missing_patterns", "quality_score", "metadata"}
                /\ Len(result.data.profile) = NumCols
                /\ result.errors = <<>>
             \/ /\ result.success = FALSE
                /\ result.data = NoneVal
                /\ result.errors # <<>>
  /\ ~Done => result = NoneVal /\ CanStep

\* a failure after a column had already been profiled
C1_Witness == Failed /\ Len(profile) >= 1

\* C2: the quality score of every successful execute is a number in [0,100].
\* It is stated for the runs that profiled at least one row; with sample_size 0
\* the profiled table has no rows and the score is NaN, which fails it as well.
C2_QualityScoreInRange ==
  (Succeeded /\ Len(df) >= 1) => /\ RLe(RInt(0), result.data.quality_score)
                                 /\ RLe(result.data.quality_score, RInt(100))

\* C3: a successful run went through the stages once each in the order
\* validate input, validate config, sample (when the table is larger than
\* sample_size), one profiling step per column in table order, correlate,
\* analyze missing, score, assemble; every stage from profiling on read the
\* sampled rows, and the missing-pattern records and the score are those of the
\* sampled rows and of this call's profiles.
ExpectedStages ==
  <<"ValidateInput", "ValidateConfig">>
  \o (IF data.nrows > sample_size THEN <<"Sample">> ELSE <<>>)
  \o [c \in 1..NumCols |-> "ProfileColumn"]
  \o <<"Correlate", "AnalyzeMissing", "Score", "Assemble">>

C3_StageOrder ==
  Succeeded =>
    /\ StageNames = ExpectedStages
    /\ LET first == CHOOSE i \in 1..Len(stages) : stages[i].stage = "ProfileColumn"
                                                  /\ stages[i].column = 1
       IN \A c \in 1..NumCols : /\ stages[first + c - 1].stage = "ProfileColumn"
                                /\ stages[first + c - 1].column = c
    /\ \A i \in 1..Len(stages) :
         stages[i].stage \notin {"ValidateInput", "ValidateConfig"} => stages[i].rows = df
    /\ Len(df) = (IF data.nrows > sample_size THEN sample_size ELSE data.nrows)
    /\ \A c \in 1..NumCols :
         /\ result.data.profile[c].count = Len(df)
         /\ result.data.missing_patterns[c].count = isnull_sum(Series(c, df))
         /\ result.data.missing_patterns[c].pattern =
              MissingRecord(Series(c, df), df).pattern
    /\ result.data.quality_score =
         _calculate_quality_score(result.data.profile, result.data.correlations,
                                  result.data.missing_patterns)

\* a successful run that sampled two rows
C3_Witness == Succeeded /\ sampled /\ Len(df) = 2 /\ data.nrows > 2

\* C4: on a mapping without the table, with something that is no table, or
\* with an empty table, execute fails with exactly the one matching error,
\* whatever the config, and has sampled nothing, profiled nothing and made no
\* call on the collaborator; on any other table none of the three errors occurs.
InputMessages == {"Missing required field: 'dataframe'",
                  "'dataframe' must be a pandas DataFrame",
                  "'dataframe' cannot be empty"}
ExpectedInputError ==
  CASE data.kind = "no_key" -> "Missing required field: 'dataframe'"
    [] data.kind = "not_table" -> "'dataframe' must be a pandas DataFrame"
    [] OTHER -> "'dataframe' cannot be empty"
InvalidInput ==
  \/ data.kind \in {"no_key", "not_table"}
  \/ data.kind = "table" /\ (data.nrows = 0 \/ NumCols = 0)

C4_InputValidation ==
  /\ (Done /\ InvalidInput) =>
        /\ result = [success |-> FALSE, data |-> NoneVal, errors |-> <<ExpectedInputError>>]
        /\ StageNames = <<"ValidateInput">>
        /\ ~sampled /\ df = <<>> /\ profile = <<>> /\ patterns = <<>> /\ calls = <<>>
  /\ (Done /\ data.kind = "table" /\ ~InvalidInput) =>
        \A i \in 1..Len(result.errors) : result.errors[i] \notin InputMessages
  /\ pc \notin {"ValidateInput", "done"} => data.kind = "table" /\ ~InvalidInput

\* an empty table with columns, an invalid config and a collaborator
C4_Witness ==
  /\ Done /\ data.kind = "table" /\ data.nrows = 0 /\ NumCols = 2
  /\ _validate_config(config) # <<>> /\ learning_history

\* C5: on a valid table, a sample_size below 0 or a pattern_threshold outside
\* [0,1] makes execute fail with one error per violated bound, before any
\* sampling, profiling or collaborator call; sample_size 0 and thresholds 0 and
\* 1 pass the validation.
SampleSizeBad == sample_size < 0
ThresholdBad == pattern_threshold < 0 \/ pattern_threshold > 10
ConfigMessages == {"Invalid sample_size: must be positive",
                   "Invalid pattern_threshold: must be between 0 and 1"}

C5_ConfigValidation ==
  /\ (Done /\ data.kind = "table" /\ ~InvalidInput /\ (SampleSizeBad \/ ThresholdBad)) =>
        /\ result.success = FALSE
        /\ result.data = NoneVal
        /\ result.errors =
             (IF SampleSizeBad THEN <<"Invalid sample_size: must be positive">> ELSE <<>>)
             \o (IF ThresholdBad
                 THEN <<"Invalid pattern_threshold: must be between 0 and 1">> ELSE <<>>)
        /\ StageNames = <<"ValidateInput", "ValidateConfig">>
        /\ ~sampled /\ df = <<>> /\ profile = <<>> /\ patterns = <<>> /\ calls = <<>>
  /\ (Done /\ ~SampleSizeBad /\ ~ThresholdBad) =>
        \A i \in 1..Len(result.errors) : result.errors[i] \notin ConfigMessages
  /\ pc \notin {"ValidateInput", "ValidateConfig", "done"} => ~SampleSizeBad /\ ~ThresholdBad

\* both bounds violated on a valid table: two errors
C5_Witness ==
  /\ Done /\ data.kind = "table" /\ ~InvalidInput
  /\ SampleSizeBad /\ ThresholdBad /\ Len(result.errors) = 2

\* the boundary values pass: a run with sample_size 0 and threshold 1 succeeded
C5_BoundaryWitness ==
  Succeeded /\ sample_size = 0 /\ pattern_threshold = 10

\* learning is on: enable_learning is true (or absent) and a collaborator is configured
LearningOn == Get(config, "enable_learning", TRUE) /\ learning_history

\* C6 as claimed: whenever an exception was raised during the run, execute
\* returns a failure whose only error is the message of an exception raised.
C6_AnyExceptionFails ==
  (Done /\ raised # <<>>) =>
     /\ result.success = FALSE
     /\ result.data = NoneVal
     /\ \E i \in 1..Len(raised) : result.errors = <<raised[i].exc.msg>>

\* C6, amended: an exception other than an AttributeError of get_learned_patterns
\* ends the run at once with the failure whose only error is its message; an
\* AttributeError of get_learned_patterns alone does not fail the run.
Unhandled ==
  SelectSeq(raised, LAMBDA r : ~(r.stage = "GetLearnedPatterns" /\ r.exc.type = "AttributeError"))

C6_UnhandledExceptionFails ==
  /\ Len(Unhandled) <= 1
  /\ Unhandled # <<>> =>
       /\ Done
       /\ raised[Len(raised)] = Unhandled[1]
       /\ result = [success |-> FALSE, data |-> NoneVal, errors |-> <<Unhandled[1].exc.msg>>]
  /\ (Done /\ Unhandled = <<>>) =>
       \/ result.success
       \/ \A i \in 1..Len(result.errors) : result.errors[i] \in InputMessages \cup ConfigMessages

\* an exception at the second column, after get_learned_patterns had raised an
\* AttributeError and the first column had been profiled
C6_Witness ==
  /\ Failed /\ Len(raised) = 2 /\ Len(profile) = 1
  /\ raised[1].exc.type = "AttributeError" /\ raised[2].stage = "ProfileColumns"

\* C7: with learning on, the calls on the collaborator are get_learned_patterns
\* once, then per column in table order one suggest_column_type followed by a
\* record_pattern exactly when one of is_id, is_email, is_phone, is_categorical
\* is set, carrying the first set flag in that order and its confidence
\* (0.9, 0.95, 0.9, 0.85, held in hundredths); a run cut short by an exception
\* has made a prefix of these calls.
FlagKeys == <<"is_id", "is_email", "is_phone", "is_categorical">>
FlagTypes == <<"id", "email", "phone", "categorical">>
FlagConfidence == <<90, 95, 90, 85>>
SetFlags(flags) == {i \in 1..4 : Get(flags, FlagKeys[i], FALSE)}
FirstFlag(flags) == CHOOSE i \in SetFlags(flags) : \A j \in SetFlags(flags) : i <= j
FlagsOfColumn(c) == _detect_patterns(Series(c, df), Storages[c], pattern_threshold)

ExpectedCallsOfColumn(c) ==
  <<[op |-> "suggest_column_type", column |-> c, type |-> "", confidence |-> 0]>>
  \o (IF SetFlags(FlagsOfColumn(c)) = {} THEN <<>>
      ELSE <<[op |-> "record_pattern", column |-> c,
              type |-> FlagTypes[FirstFlag(FlagsOfColumn(c))],
              confidence |-> FlagConfidence[FirstFlag(FlagsOfColumn(c))]]>>)

RECURSIVE ExpectedCallsUpTo(_)
ExpectedCallsUpTo(c) ==
  IF c = 0 THEN <<[op |-> "get_learned_patterns", column |-> 0, type |-> "", confidence |-> 0]>>
  ELSE ExpectedCallsUpTo(c - 1) \o ExpectedCallsOfColumn(c)

MadeCalls == [i \in 1..Len(calls) |->
                [op |-> calls[i].op, column |-> calls[i].column,
                 type |-> calls[i].type, confidence |-> calls[i].confidence]]

C7_LearningCallOrder ==
  LearningOn =>
    /\ pc \in {"ValidateInput", "ValidateConfig", "Sample", "GetLearnedPatterns"} => calls = <<>>
    /\ pc = "ProfileColumns" => MadeCalls = ExpectedCallsUpTo(col - 1)
    /\ Succeeded => MadeCalls = ExpectedCallsUpTo(NumCols)
    /\ Failed => IsPrefix(MadeCalls, ExpectedCallsUpTo(NumCols))

\* a successful run with learning on that recorded a phone fact
C7_Witness ==
  Succeeded /\ LearningOn /\ \E i \in 1..Len(calls) : calls[i].type = "phone"

\* C8 as claimed: a successful run with learning on calls record_pattern at
\* least once per column.
RecordCalls(c) == {i \in 1..Len(calls) : calls[i].op = "record_pattern" /\ calls[i].column = c}
NumRecordCalls == Cardinality({i \in 1..Len(calls) : calls[i].op = "record_pattern"})

C8_RecordPerColumn ==
  (Succeeded /\ LearningOn) => NumRecordCalls >= NumCols

\* C8, amended: a successful run with learning on calls record_pattern exactly
\* once for each column whose pattern result sets is_id, is_email, is_phone or
\* is_categorical and never for another column, so at most once per column.
C8_RecordPerDetectedColumn ==
  (Succeeded /\ LearningOn) =>
    /\ \A c \in 1..NumCols :
         Cardinality(RecordCalls(c)) =
           (IF SetFlags(result.data.patterns[c]) # {} THEN 1 ELSE 0)
    /\ NumRecordCalls <= NumCols

\* two columns, one with a detected pattern and one (all missing, or holding a
\* list) without: one record_pattern call
C8_Witness ==
  Succeeded /\ LearningOn /\ NumCols = 2 /\ NumRecordCalls = 1

\* C9: with learning off (the switch off or no collaborator) no call is made on
\* the collaborator and no profile has suggested_type; with learning on, a
\* column's profile has suggested_type exactly when suggest_column_type
\* returned a non-empty suggestion for it, and holds that suggestion.
SuggestCalls(c) ==
  {i \in 1..Len(calls) : calls[i].op = "suggest_column_type" /\ calls[i].column = c}
FinalProfile == IF Succeeded THEN result.data.profile ELSE profile

C9_LearningSwitch ==
  /\ ~LearningOn =>
       /\ calls = <<>>
       /\ \A c \in 1..Len(FinalProfile) : "suggested_type" \notin DOMAIN FinalProfile[c]
  /\ LearningOn =>
       \A c \in 1..Len(FinalProfile) :
          /\ Cardinality(SuggestCalls(c)) = 1
          /\ \A i \in SuggestCalls(c) :
               /\ ("suggested_type" \in DOMAIN FinalProfile[c]) <=> (calls[i].returned # "")
               /\ calls[i].returned # "" => FinalProfile[c].suggested_type = calls[i].returned

\* learning on: the first column got a suggestion, the second got none
C9_Witness ==
  /\ Succeeded /\ LearningOn /\ NumCols = 2
  /\ "suggested_type" \in DOMAIN result.data.profile[1]
  /\ "suggested_type" \notin DOMAIN result.data.profile[2]

\* C10: the metadata of a successful run reports sampled exactly when the
\* table has more rows than sample_size; then sample_size is the configured
\* cap, otherwise the table's row count; original_size is the table's row
\* count; the profiled rows are that many distinct rows of the table.
C10_SamplingMetadata ==
  Succeeded =>
    LET m == result.data.metadata
    IN /\ m.sampled = (data.nrows > Get(config, "sample_size", DefaultSampleSize))
       /\ m.sampled => m.sample_size = Get(config, "sample_size", DefaultSampleSize)
       /\ ~m.sampled => m.sample_size = data.nrows
       /\ m.original_size = data.nrows
       /\ Len(df) = m.sample_size
       /\ Cardinality(Range(df)) = Len(df)
       /\ Range(df) \subseteq 0..(data.nrows - 1)

\* three rows sampled down to two
C10_Witness ==
  /\ Succeeded /\ result.data.metadata.sampled
  /\ result.data.metadata.sample_size = 2 /\ result.data.metadata.original_size = 3

\* C11: with learning disabled, what execute returns is a function of the
\* table and the config alone, also when the table is sampled: every run on the
\* same table and config ends with the one result computed here from the rows
\* the seeded sample selects (profiled_at, the time of the call, is not part of
\* the modelled result).
SeededRows == CHOOSE rows \in _sample_dataframe(AllLabels(data.nrows), sample_size) : TRUE

DeterminedData ==
  LET prof == [c \in 1..NumCols |-> _profile_column(Series(c, SeededRows), Storages[c])]
      miss == _analyze_missing_patterns(SeededRows)
      corr == _calculate_correlations([c \in 1..NumCols |-> Series(c, SeededRows)], Storages)
  IN [profile |-> prof,
      patterns |-> [c \in 1..NumCols |->
                      _detect_patterns(Series(c, SeededRows), Storages[c], pattern_threshold)],
      correlations |-> corr,
      missing_patterns |-> miss,
      quality_score |-> _calculate_quality_score(prof, corr, miss),
      metadata |-> [sampled |-> data.nrows > sample_size,
                    sample_size |-> Len(SeededRows),
                    original_size |-> data.nrows]]

DeterminedResult ==
  IF data.kind = "not_mapping" THEN Failure(<<TypeError.msg>>)
  ELSE IF validate_input(data) # <<>> THEN Failure(validate_input(data))
  ELSE IF _validate_config(config) # <<>> THEN Failure(_validate_config(config))
  ELSE [success |-> TRUE, data |-> DeterminedData, errors |-> <<>>]

C11_Deterministic ==
  (Done /\ ~LearningOn) => result = DeterminedResult

\* learning disabled, four rows sampled down to the rows labelled 1 and 3
C11_Witness ==
  Succeeded /\ ~LearningOn /\ sampled /\ data.nrows = 4 /\ df = <<1, 3>>

\* C12: no step of execute changes the caller's table: its columns, rows,
\* cells and row labels (0..nrows-1, implied by the row count) are at every
\* step what they were at the call, whether the run samples, succeeds or fails.
C12_InputUnchanged == [][data' = data]_vars

\* a sampled run that failed at the second column, the table still whole
C12_Witness ==
  /\ Failed /\ sampled /\ Len(profile) = 1
  /\ data.nrows = 1 /\ NumCols = 2 /\ df = <<>>

\* C13: every profiled column with a non-missing value gets exactly one of the
\* six labels, and it is the label of the first rule that applies, in the
\* order native datetime, boolean (native, or exactly two distinct values
\* drawn from true, false and their spellings), native numeric, all text
\* (numeric, mixed or string by the share that parses as numbers), more than
\* one value type (date-like types that all parse as dates: datetime; a
\* container type: object; otherwise mixed), more than 70% parse as dates,
\* all text, object.
DtypeLabels == {"numeric", "string", "datetime", "boolean", "mixed", "object"}
Cells(c) == dropna(Series(c, df))
AllText(cells) == \A i \in 1..Len(cells) : cells[i].k = "str"
NumberCount(cells) == Cardinality({i \in 1..Len(cells) : to_numeric(cells[i]).ok})
DateCount(cells) == Cardinality({i \in 1..Len(cells) : to_datetime_valid(cells[i])})
TypesOf(cells) == {TypeOf(cells[i]) : i \in 1..Len(cells)}
TwoBooleans(cells) ==
  /\ \A i \in 1..Len(cells) : cells[i].k # "list"
  /\ Cardinality({HashKey(cells[i]) : i \in 1..Len(cells)}) = 2
  /\ \A i \in 1..Len(cells) : BoolLike(cells[i])
\* True, False or one of the spellings 'True', 'False', 'true', 'false'
ActualBoolean(c) ==
  \/ c.k = "bool"
  \/ c.k = "str" /\ c.s \in {<<"T", "r", "u", "e">>, <<"F", "a", "l", "s", "e">>,
                             <<"t", "r", "u", "e">>, <<"f", "a", "l", "s", "e">>}
\* exactly two distinct values, drawn from true, false and their spellings
TwoActualBooleans(cells) ==
  /\ Cardinality({cells[i] : i \in 1..Len(cells)}) = 2
  /\ \A i \in 1..Len(cells) : ActualBoolean(cells[i])

Rules(cells, storage) ==
  << [applies |-> storage = "datetime", label |-> "datetime"],
     [applies |-> storage = "bool" \/ TwoActualBooleans(cells), label |-> "boolean"],
     [applies |-> storage = "numeric", label |-> "numeric"],
     [applies |-> AllText(cells),
      label |-> IF 10 * NumberCount(cells) > 9 * Len(cells) THEN "numeric"
                ELSE IF NumberCount(cells) > 0 THEN "mixed" ELSE "string"],
     [applies |-> Cardinality(TypesOf(cells)) > 1,
      label |-> IF TypesOf(cells) \subseteq {"str", "datetime", "Timestamp", "date"}
                THEN (IF DateCount(cells) = Len(cells) THEN "datetime" ELSE "mixed")
                ELSE IF TypesOf(cells) \cap {"dict", "list", "tuple", "set"} # {}
                     THEN "object" ELSE "mixed"],
     [applies |-> 10 * DateCount(cells) > 7 * Len(cells), label |-> "datetime"],
     [applies |-> AllText(cells), label |-> "string"],
     [applies |-> TRUE, label |-> "object"] >>

FirstMatching(cells, storage) ==
  LET rules == Rules(cells, storage)
      first == CHOOSE i \in 1..Len(rules) :
                 rules[i].applies /\ \A j \in 1..(i - 1) : ~rules[j].applies
  IN rules[first].label

C13_ClassifierPrecedence ==
  \A c \in 1..Len(profile) :
     Len(Cells(c)) >= 1 =>
        /\ profile[c].dtype \in DtypeLabels
        /\ profile[c].dtype = FirstMatching(Cells(c), Storages[c])

\* C14 as claimed: a profiled column whose non-missing values are all text
\* (and are not the two spellings the boolean rule takes) is numeric when at
\* least 90% of them parse as numbers, exactly 90% included, mixed when at
\* least one but fewer than 90% parse, and string when none parses.
TextColumn(c) ==
  /\ Len(Cells(c)) >= 1
  /\ AllText(Cells(c))
  /\ ~TwoBooleans(Cells(c))

C14_NumericTextInclusive ==
  \A c \in 1..Len(profile) :
     TextColumn(c) =>
        LET n == Len(Cells(c))
            parsed == NumberCount(Cells(c))
        IN /\ 10 * parsed >= 9 * n => profile[c].dtype = "numeric"
           /\ (parsed >= 1 /\ 10 * parsed < 9 * n) => profile[c].dtype = "mixed"
           /\ parsed = 0 => profile[c].dtype = "string"

\* C14, amended: such a column is numeric when more than 90% of the values
\* parse as numbers, mixed when at least one and at most 90% parse (exactly
\* 90% included), and string when none parses.
C14_NumericTextStrict ==
  \A c \in 1..Len(profile) :
     TextColumn(c) =>
        LET n == Len(Cells(c))
            parsed == NumberCount(Cells(c))
        IN /\ 10 * parsed > 9 * n => profile[c].dtype = "numeric"
           /\ (parsed >= 1 /\ 10 * parsed <= 9 * n) => profile[c].dtype = "mixed"
           /\ parsed = 0 => profile[c].dtype = "string"

\* ten texts of which nine are numbers: mixed
C14_Witness ==
  /\ Succeeded /\ NumCols = 1 /\ data.nrows = 10
  /\ TextColumn(1) /\ NumberCount(Cells(1)) = 9
  /\ result.data.profile[1].dtype = "mixed"

\* C15: a profiled column that is not natively boolean is labelled boolean
\* only when its non-missing values have exactly two distinct values and each
\* is True, False or one of the spellings 'True', 'False', 'true', 'false'; a
\* numeric column whose only values are 0 and 1 is labelled numeric.
C15_BooleanOnlyTrueFalse ==
  \A c \in 1..Len(profile) :
     /\ (profile[c].dtype = "boolean" /\ Storages[c] # "bool") =>
           /\ Cardinality(Range(Cells(c))) = 2
           /\ \A i \in 1..Len(Cells(c)) : ActualBoolean(Cells(c)[i])
     /\ (Storages[c] = "numeric" /\ Range(Cells(c)) = {IntC(0), IntC(1)}) =>
           profile[c].dtype = "numeric"

\* equality of two floats: a NaN equals nothing
REq(a, b) == ~IsNaN(a) /\ ~IsNaN(b) /\ a = b

\* C16: in the result of a successful run, profile, patterns and
\* missing_patterns have exactly the table's columns, and for every column
\* count is the number of rows profiled, 0 <= null_count <= count,
\* null_percentage is the number null_count / count * 100, and the column's
\* missing-pattern record has the same count and the same percentage.
C16_Completeness ==
  Succeeded =>
    LET r == result.data
    IN /\ Len(r.profile) = NumCols
       /\ Len(r.patterns) = NumCols
       /\ Len(r.missing_patterns) = NumCols
       /\ \A c \in 1..NumCols :
            /\ r.profile[c].count = Len(df)
            /\ 0 <= r.profile[c].null_count
            /\ r.profile[c].null_count <= r.profile[c].count
            /\ REq(r.profile[c].null_percentage,
                   Rat(100 * r.profile[c].null_count, r.profile[c].count))
            /\ r.missing_patterns[c].count = r.profile[c].null_count
            /\ REq(r.missing_patterns[c].percentage, r.profile[c].null_percentage)

\* C17: in the result of a successful run a column's profile has dtype
\* all_null exactly when the profiled column has no non-missing cell; then the
\* profile made by the column profiler holds count, null_count,
\* null_percentage (100) and dtype and nothing else (a suggested_type, which
\* execute attaches afterwards, set aside), the column's pattern result is
\* empty and its missing-pattern record is all_missing with percentage 100.
C17_AllNull ==
  Succeeded =>
    \A c \in 1..NumCols :
       LET p == result.data.profile[c]
       IN /\ (p.dtype = "all_null") <=> (Len(Cells(c)) = 0)
          /\ p.dtype = "all_null" =>
               /\ DOMAIN p \ {"suggested_type"} =
                    {"count", "null_count", "null_percentage", "dtype"}
               /\ REq(p.null_percentage, RInt(100))
               /\ result.data.patterns[c] = EmptyMap
               /\ result.data.missing_patterns[c].pattern = "all_missing"
               /\ REq(result.data.missing_patterns[c].percentage, RInt(100))

\* C18: every column of the profiled table gets the one pattern given by the
\* rules in order: no null cell, none; every row null, all_missing; the null
\* positions exactly the first K rows (K the null count), block; at least two
\* nulls with all gaps between consecutive null positions equal, systematic;
\* otherwise random.  Positions are the rows of the profiled table, from 0.
NullPositions(series) == {i - 1 : i \in {j \in 1..Len(series) : IsNull(series[j])}}
Gaps(positions) ==
  {b - a : <<a, b>> \in {pr \in positions \X positions :
                            /\ pr[1] < pr[2]
                            /\ \A m \in positions : ~(pr[1] < m /\ m < pr[2])}}
PositionalPattern(series) ==
  LET positions == NullPositions(series)
      k == Cardinality(positions)
  IN IF k = 0 THEN "none"
     ELSE IF k = Len(series) THEN "all_missing"
     ELSE IF positions = 0..(k - 1) THEN "block"
     ELSE IF k >= 2 /\ Cardinality(Gaps(positions)) = 1 THEN "systematic"
     ELSE "random"

C18_MissingPatternRules ==
  \A c \in 1..Len(missing_patterns) :
     missing_patterns[c].pattern = PositionalPattern(Series(c, df))

\* C19: the quality score of a successful run is the unweighted mean of: for
\* every column 100 - null_percentage; for every column labelled numeric
\* 100 - min(outlier_percentage * 10, 100), outlier_percentage being the
\* outlier count over the column's cell count times 100; for every column
\* 100 - percentage * 1.5 when its missing pattern is random,
\* 100 - percentage * 0.7 when systematic, else 100; and nothing else.  A table
\* without a missing cell and without an outlier scores exactly 100.
NumericColumns(r) == {c \in 1..NumCols : r.profile[c].dtype = "numeric"}
ContributionSum(r) ==
  LET completeness == [c \in 1..NumCols |-> RSub(RInt(100), r.profile[c].null_percentage)]
      outlier(c) ==
        LET pct == Rat(100 * r.profile[c].outliers.count, r.profile[c].count)
            penalty == RMul(pct, RInt(10))
        IN IF c \in NumericColumns(r)
           THEN RSub(RInt(100), IF RLt(penalty, RInt(100)) THEN penalty ELSE RInt(100))
           ELSE RInt(0)
      missing(c) ==
        LET m == r.missing_patterns[c]
        IN CASE m.pattern = "random" -> RSub(RInt(100), RMul(m.percentage, Rat(15, 10)))
             [] m.pattern = "systematic" -> RSub(RInt(100), RMul(m.percentage, Rat(7, 10)))
             [] OTHER -> RInt(100)
  IN RAdd(RSum(completeness),
          RAdd(RSum([c \in 1..NumCols |-> outlier(c)]),
               RSum([c \in 1..NumCols |-> missing(c)])))
ContributionCount(r) == 2 * NumCols + Cardinality(NumericColumns(r))
Spotless(r) ==
  /\ \A c \in 1..NumCols : \A i \in 1..data.nrows : ~IsNull(data.columns[c][i])
  /\ \A c \in NumericColumns(r) : r.profile[c].outliers.count = 0

C19_QualityScoreMean ==
  Succeeded =>
    LET r == result.data
    IN /\ REq(r.quality_score, RDivInt(ContributionSum(r), ContributionCount(r)))
       /\ Spotless(r) => REq(r.quality_score, RInt(100))

\* C20: in a numeric column profile with quartiles q1 and q3 and
\* iqr = q3 - q1, the outliers are exactly the values v of the column with
\* v < q1 - 2 * iqr or v > q3 + 2 * iqr; with q1 = 25 and q3 = 75 these are
\* the values below -75 or above 175, and -75 and 175 themselves are not.
NumericValues(c) ==
  LET parsed == SelectSeq(Cells(c), LAMBDA x : to_numeric(x).ok)
  IN [i \in 1..Len(parsed) |-> to_numeric(parsed[i]).val]

C20_OutlierFence ==
  \A c \in 1..Len(profile) :
     profile[c].dtype = "numeric" =>
        LET p == profile[c]
            iqr == RSub(p.q3, p.q1)
            low == RSub(p.q1, RAdd(iqr, iqr))
            high == RAdd(p.q3, RAdd(iqr, iqr))
            beyond == SelectSeq(NumericValues(c),
                                LAMBDA v : RLt(RInt(v), low) \/ RLt(high, RInt(v)))
        IN /\ p.outliers.values = beyond
           /\ p.outliers.count = Len(beyond)
           /\ (p.q1 = RInt(25) /\ p.q3 = RInt(75)) =>
                 p.outliers.values = SelectSeq(NumericValues(c), LAMBDA v : v < -75 \/ v > 175)

\* quartiles 25 and 75 in a column holding -75 and 176: only 176 is an outlier
C20_Witness ==
  /\ Succeeded
  /\ result.data.profile[1].dtype = "numeric"
  /\ result.data.profile[1].q1 = RInt(25) /\ result.data.profile[1].q3 = RInt(75)
  /\ IntC(-75) \in Range(data.columns[1])
  /\ result.data.profile[1].outliers.values = <<176>>

\* C21: for a text column of the profiled table (its non-missing cells are
\* all text, and there is one at least), is_id is true exactly when the
\* non-missing cells are pairwise distinct, missing cells or not.
IsTextColumn(c) == Len(Cells(c)) >= 1 /\ AllText(Cells(c))
DistinctCells(cells) == \A i, j \in 1..Len(cells) : i # j => cells[i] # cells[j]

C21_IdDetection ==
  Succeeded =>
    \A c \in 1..NumCols :
       IsTextColumn(c) =>
          /\ "is_id" \in DOMAIN result.data.patterns[c]
          /\ result.data.patterns[c].is_id = DistinctCells(Cells(c))

\* C22 as stated: for every column of the profiled table with a non-missing
\* cell, whatever it holds, is_categorical is true exactly when the number of
\* distinct non-missing values is at most 10, or is below 5% of the row count
\* and below 50.
DistinctCount(cells) == Cardinality(Range(cells))
CategoricalRule(c) ==
  LET unique_count == DistinctCount(Cells(c))
      rows == Len(Series(c, df))
  IN unique_count <= 10 \/ (100 * unique_count < 5 * rows /\ unique_count < 50)

C22_CategoricalAnyColumn ==
  Succeeded =>
    \A c \in 1..NumCols :
       Len(Cells(c)) >= 1 => result.data.patterns[c].is_categorical = CategoricalRule(c)

\* C22 amended: the rule holds for the columns whose values can be hashed; a
\* column holding a list has is_categorical false.
C22_CategoricalHashable ==
  Succeeded =>
    \A c \in 1..NumCols :
       Len(Cells(c)) >= 1 =>
          result.data.patterns[c].is_categorical =
             (~Unhashable(Series(c, df)) /\ CategoricalRule(c))

\* 40 distinct values in 1000 rows: categorical by the second alternative
C22_Witness ==
  /\ Succeeded
  /\ data.nrows = 1000
  /\ DistinctCount(Cells(1)) = 40
  /\ result.data.patterns[1].is_categorical

\* the three examples of the claim, and the two thresholds taken exactly
C22_Examples ==
  Succeeded =>
    LET u == DistinctCount(Cells(1))
        flag == result.data.patterns[1].is_categorical
    IN /\ (data.nrows = 100 /\ u = 3) => flag
       /\ (data.nrows = 1000 /\ u = 40) => flag
       /\ (data.nrows = 1000 /\ u = 60) => ~flag
       /\ (data.nrows = 1000 /\ u = 50) => ~flag
       /\ (data.nrows = 220 /\ u = 11) => ~flag
       /\ (data.nrows = 221 /\ u = 11) => flag

\* C23 as stated: for a column of the profiled table whose non-missing cells
\* are all text, is_email, is_phone and (when the regexes decide it) is_date
\* are true exactly when the matching cells are at least pattern_threshold of
\* the non-missing cells; for a column with a non-missing cell that is no
\* text, is_email, is_phone, is_date and is_id are absent.
TextFlags == {"is_email", "is_phone", "is_date", "is_id"}
Matching(cells, M(_)) == Cardinality({i \in 1..Len(cells) : IsStr(cells[i]) /\ M(cells[i].s)})
MatchDate(t) == \E p \in 1..Len(date_patterns) : MatchShape(t, date_patterns[p])
Reaches(matches, total) == 10 * matches >= pattern_threshold * total
DateByRegex(c) == _determine_dtype(Series(c, df), Storages[c]) # "datetime"
FlagsByRatio(c) ==
  LET cells == Cells(c)
      flags == result.data.patterns[c]
  IN /\ TextFlags \subseteq DOMAIN flags
     /\ flags.is_email = Reaches(Matching(cells, MatchEmail), Len(cells))
     /\ flags.is_phone = Reaches(Matching(cells, MatchPhone), Len(cells))
     /\ DateByRegex(c) => flags.is_date = Reaches(Matching(cells, MatchDate), Len(cells))
     /\ pattern_threshold = 0 => flags.is_email /\ flags.is_phone
     /\ (pattern_threshold = 10 /\ flags.is_email) =>
           \A i \in 1..Len(cells) : IsStr(cells[i]) /\ MatchEmail(cells[i].s)

C23_TextFlagsAllText ==
  Succeeded =>
    \A c \in 1..NumCols :
       Len(Cells(c)) >= 1 =>
          IF AllText(Cells(c)) THEN FlagsByRatio(c)
          ELSE DOMAIN result.data.patterns[c] \cap TextFlags = {}

\* C23 amended: what decides is whether the first 100 non-missing cells are
\* all text; a later cell that is no text counts as a cell that matches nothing.
C23_TextFlagsSampledText ==
  Succeeded =>
    \A c \in 1..NumCols :
       Len(Cells(c)) >= 1 =>
          IF AllText(head(Cells(c), HeadSample))
          THEN /\ FlagsByRatio(c)
               /\ (pattern_threshold = 10 /\ ~AllText(Cells(c))) =>
                     ~result.data.patterns[c].is_email
          ELSE DOMAIN result.data.patterns[c] \cap TextFlags = {}

\* two emails and a phone number at threshold 0.5: is_email true, is_phone false
C23_Witness ==
  /\ Succeeded
  /\ pattern_threshold = 5
  /\ Matching(Cells(1), MatchEmail) = 2 /\ Matching(Cells(1), MatchPhone) = 1
  /\ Len(Cells(1)) = 3
  /\ result.data.patterns[1].is_email /\ ~result.data.patterns[1].is_phone

\* C24: the correlation result of a successful run is empty when fewer than
\* two columns have raw numeric storage; otherwise its outer keys are exactly
\* those columns, each inner mapping has exactly the other ones as keys (never
\* the column itself, never a column that is not numeric), and the entry for
\* (a, b) is the entry for (b, a): the same coefficient, or undefined both.
RawNumeric ==
  {c \in 1..NumCols : \A i \in 1..data.nrows : data.columns[c][i].k \in {"int", "null"}}
CorrelationKeys(corr) ==
  IF Cardinality(RawNumeric) < 2 THEN corr = EmptyMap
  ELSE /\ DOMAIN corr = RawNumeric
       /\ \A a \in RawNumeric : DOMAIN corr[a] = RawNumeric \ {a}

C24_CorrelationSymmetric ==
  Succeeded =>
    LET corr == result.data.correlations
    IN /\ CorrelationKeys(corr)
       /\ \A a \in DOMAIN corr : \A b \in DOMAIN corr[a] : corr[a][b] = corr[b][a]

\* three columns, two numeric with coefficient -1/2 and one of None alone
C24_Witness ==
  /\ Succeeded
  /\ NumCols = 3
  /\ RawNumeric = {1, 3}
  /\ data.columns[2] = <<NoneC, NoneC, NoneC>>
  /\ result.data.correlations[1][3] = [sign |-> -1, square |-> Rat(1, 4)]
  /\ result.data.correlations[3][1] = [sign |-> -1, square |-> Rat(1, 4)]

\* C25: with several threads calling store_operation, no append is lost or
\* made twice.  At any moment the records of one thread in history are in
\* that thread's call order, each at most once, and none is of a call that
\* has not appended.  While no load_history or clear_old_history call has
\* been made (save_history calls may run meanwhile), history holds the
\* records that were loaded, then exactly one record for every call that has
\* appended; once every thread has completed its CallsPerThread calls there
\* are NumThreads * CallsPerThread records more than were loaded.
AllJoined == \A t \in Threads : thread_pc[t] = "joined"
AppendsOf(t) == completed[t] + (IF thread_pc[t] = "stored" THEN 1 ELSE 0)
Appended == SumSeq([t \in Threads |-> AppendsOf(t)])
LoadedFirst == IF history # <<>> /\ history[1].by = 0 THEN 1 ELSE 0
OnlyStoresAndSaves == \A i \in 1..Len(maint_done) : maint_done[i] = "save_history"

C25_NoLostAppend ==
  thread_pc # <<>> =>
    /\ \A i \in 1..Len(history) :
         LET r == history[i]
         IN r.by # 0 =>
              /\ r.input < AppendsOf(r.by)
              /\ r = OperationRecord(r.by, r.input)
              /\ \A j \in (i + 1)..Len(history) :
                   LET q == history[j] IN q.by # r.by \/ r.input < q.input
    /\ OnlyStoresAndSaves =>
         /\ \A i \in 1..Len(history) : history[i].by = 0 => i = 1 /\ history[i] = LoadedRecord
         /\ Len(history) = LoadedFirst + Appended
         /\ AllJoined => Len(history) = LoadedFirst + NumThreads * CallsPerThread

\* every thread has returned from all its calls, the second thread having
\* appended first and the threads' records alternating after a loaded one,
\* and a save_history call has written the file when three records were held
C25_Witness ==
  /\ thread_pc # <<>>
  /\ AllJoined
  /\ OnlyStoresAndSaves
  /\ Len(history) = 1 + NumThreads * CallsPerThread
  /\ history[1] = LoadedRecord
  /\ history[2].by = 2 /\ history[3].by = 1 /\ history[4].by = 2
  /\ history_file.state = "json" /\ Len(history_file.records) = 3

\* C26: a column of the profiled table whose missing cells are exactly its
\* first K rows, or exactly its last K rows, with 0 < K < the row count, has
\* the missing pattern block.
LeadingNulls(series) ==
  LET k == Cardinality(NullPositions(series))
  IN 0 < k /\ k < Len(series) /\ NullPositions(series) = 0..(k - 1)
TrailingNulls(series) ==
  LET k == Cardinality(NullPositions(series))
  IN 0 < k /\ k < Len(series) /\ NullPositions(series) = (Len(series) - k)..(Len(series) - 1)

C26_BlockAtEitherEnd ==
  \A c \in 1..Len(missing_patterns) :
     (LeadingNulls(Series(c, df)) \/ TrailingNulls(Series(c, df))) =>
        missing_patterns[c].pattern = "block"

\* C27: when the table has been sampled, the missing pattern of a column is
\* decided on the positions 0..n-1 of its cells within the sample: nulls at
\* exactly the first K positions of the sample are block, and the gaps of the
\* systematic rule are differences of positions within the sample.
C27_PositionsWithinSample ==
  sampled =>
    \A c \in 1..Len(missing_patterns) :
       /\ LeadingNulls(Series(c, df)) => missing_patterns[c].pattern = "block"
       /\ missing_patterns[c].pattern = "systematic" <=>
             /\ ~LeadingNulls(Series(c, df))
             /\ Cardinality(NullPositions(Series(c, df))) \in 2..(Len(df) - 1)
             /\ Cardinality(Gaps(NullPositions(Series(c, df)))) = 1

\* C28: on every successful run (the table valid and not empty, the config
\* accepted, sample_size 0 included) the profiled table has at least one row:
\* every column's count is at least 1, and every null_percentage and the
\* quality score are numbers.
C28_ProfiledTableNotEmpty ==
  Succeeded =>
    /\ result.data.metadata.sample_size >= 1
    /\ \A c \in 1..NumCols :
          /\ result.data.profile[c].count >= 1
          /\ ~IsNaN(result.data.profile[c].null_percentage)
    /\ ~IsNaN(result.data.quality_score)

\* C29: when execute returns Failure, the learning collaborator has been
\* given no fact during the call: none of its record_pattern calls returned
\* (the last call made, the one that raised, is left aside).
ReturnedCalls == IF Failed /\ calls # <<>> THEN SubSeq(calls, 1, Len(calls) - 1) ELSE calls

C29_NoFactOnFailure ==
  Failed => \A i \in 1..Len(ReturnedCalls) : ReturnedCalls[i].op # "record_pattern"

\* C30: in the profile of every column labelled boolean, whether it holds
\* booleans or the spellings of true and false, true_count + false_count is
\* the number of non-missing cells and true_percentage is true_count over
\* that number, times 100.
C30_BooleanCounts ==
  \A c \in 1..Len(profile) :
     profile[c].dtype = "boolean" =>
        /\ profile[c].true_count + profile[c].false_count = Len(Cells(c))
        /\ REq(profile[c].true_percentage, Rat(100 * profile[c].true_count, Len(Cells(c))))

====
